---- MODULE Spec2Model ----
(***************************************************************************)
(* A model of the Bedrock router service (src/services/router/main.py):    *)
(* the API-key store gateway, the per-process validation cache, the        *)
(* authenticator and the key-lifecycle endpoints, with every await on the  *)
(* worker pool as a point where other coroutines and other processes run.  *)
(***************************************************************************)
EXTENDS Integers, Sequences, FiniteSets, TLC

VARIABLES
    store,      \* the DynamoDB table: key_hash -> item, shared by all processes
    cache,      \* _api_key_cache of each router process: key_hash -> entry
    reqs,       \* the requests in flight: each coroutine's position and locals
    touches,    \* _update_last_used jobs submitted to the executor, per process
    now,        \* the wall clock, in seconds
    revokedOK,  \* history: <<process, key_hash>> of every revoke that answered 200
    pool,       \* the raw keys generate_api_key has yet to return
    last,       \* the request the step just taken answered, with its response
    body,       \* translate_openai_to_converse: the request body it was given
    params,     \* translate_openai_to_converse: the Converse parameters it returned
    back,       \* the tool calls translated back from each Converse message
    stream_pc,  \* handle_anthropic_streaming: the handler's position
    delivered,  \* the events the upstream stream has yielded so far
    frames,     \* the SSE frames written to the client, in order
    tool_idx,   \* handle_anthropic_streaming: tool_idx
    client_open,\* the client's connection: writes raise once it is closed
    eof_sent,   \* response.write_eof() has completed
    upstream_exc, \* the exception the Converse call raised, "" when none
    chat,       \* chat_completions: the handler's position and locals
    _token,     \* _token: the upstream bearer token and its expiry
    model_map,  \* _model_map: alias -> canonical model id
    getters,    \* the handlers that call get_token: each coroutine's position
    cycle,      \* history: the provider calls since the cache was last filled
    http,       \* the request going through the middlewares, and its response
    version_policy,       \* _version_policy: minimum and fetched_at
    DISTRIBUTION_BUCKET,  \* whether the environment names a distribution bucket
    _bedrock_client,      \* _bedrock_client: the SDK client handle, or None
    _dynamodb_table,      \* _dynamodb_table: the key-store handle, or None
    workers,    \* the pool workers running store functions: position and locals
    built,      \* history: how many clients and tables were constructed
    used        \* history: the handles the callers went on to use

keyVars == <<store, cache, reqs, touches, now, revokedOK, pool, last>>
translateVars == <<body, params, back>>
sseVars ==
    <<stream_pc, delivered, frames, tool_idx, client_open, eof_sent, upstream_exc>>
gateVars == <<http, version_policy, DISTRIBUTION_BUCKET>>
chatVars == <<chat, _token, model_map>>
tokenVars == <<getters, cycle>>
handleVars == <<_bedrock_client, _dynamodb_table, workers, built, used>>
vars ==
    <<keyVars, translateVars, sseVars, gateVars, chatVars, tokenVars, handleVars>>

\* what the steps of each part of the router leave alone
exceptKeys == <<translateVars, sseVars, gateVars, chatVars, tokenVars,
     handleVars>>
exceptTranslate == <<keyVars, sseVars, gateVars, chatVars, tokenVars,
     handleVars>>
exceptSse == <<keyVars, translateVars, gateVars, chatVars, tokenVars,
     handleVars>>
exceptGate == <<translateVars, sseVars, chatVars, tokenVars,
     handleVars>>
exceptChat == <<keyVars, translateVars, gateVars, tokenVars,
     handleVars>>
exceptToken ==
    <<keyVars, translateVars, sseVars, gateVars, chat, model_map, handleVars>>

(***************************************************************************)
(* Bounds of the model.                                                    *)
(***************************************************************************)
MaxTime == 500        \* the clock stops here
Tick == 100           \* the clock's granularity, in seconds
LookupTimeout == 200  \* a store call that has read returns within this time

(***************************************************************************)
(* Program constants.                                                      *)
(***************************************************************************)
MAX_KEYS_PER_USER == 10
DEFAULT_EXPIRY_DAYS == 90
MIN_EXPIRY_DAYS == 1
MAX_EXPIRY_DAYS == 365
API_KEY_CACHE_TTL == 300
KEY_PREFIX_LEN == 10
SECONDS_PER_DAY == 86400
TTL_GRACE_DAYS == 30

API_KEY_PREFIX == <<"o", "c", "_">>

ReqIds == {1, 2}
Procs == {1, 2}
Users == {"A", "B"}
Email(u) == <<u, "@", "x">>

(***************************************************************************)
(* Raw keys are character sequences, "oc_" and a random part.  Key("1","x")*)
(* and Key("1","y") share their first ten characters.                      *)
(***************************************************************************)
Key(c, d) == <<"o", "c", "_", "k", "e", "y", "0", "0", "0", c, d, "z">>
QuotaChars == <<"3", "4", "5", "6", "7", "8", "9", "a", "b", "d", "f", "g">>
QuotaKey(i) == Key(QuotaChars[i], "x")
RawKeys ==
    {Key("1", "x"), Key("1", "y"), Key("2", "x")}
        \cup {QuotaKey(i) : i \in DOMAIN QuotaChars}
NoKey == <<>>
BadKey == <<"s", "k", "_", "k", "e", "y", "0", "0", "0", "1", "x", "z">>

Alphabet ==
    <<"o", "c", "_", "k", "e", "y", "0", "1", "2", "x", "z", "s">> \o QuotaChars
Ord(c) == CHOOSE i \in DOMAIN Alphabet : Alphabet[i] = c

RECURSIVE Digest(_, _)
Digest(s, h) ==
    IF s = <<>> THEN h ELSE Digest(Tail(s), (h * 31 + Ord(Head(s))) % 65521)

\* hashlib.sha256(key).hexdigest(): a digest, injective on the keys of the model
hash_api_key(key) == Digest(key, 7)

StartsWith(s, p) == Len(s) >= Len(p) /\ SubSeq(s, 1, Len(p)) = p
\* a variant of the slice that keeps the whole sequence
TakeAll(s, n) == s
Take(s, n) == SubSeq(s, 1, IF Len(s) < n THEN Len(s) ELSE n)

Hashes == {hash_api_key(k) : k \in RawKeys}

NoItem == [none |-> TRUE]
NoEntry == [none |-> TRUE]
NoResp == [none |-> TRUE]
NoTime == -1

(***************************************************************************)
(* The Authorization header: absent, or "Bearer " and a token of so many   *)
(* dot-separated parts whose middle part decodes to the claims, or not.    *)
(***************************************************************************)
NoClaims == [none |-> TRUE]
NoAuth == [scheme |-> "none", parts |-> 0, claims |-> NoClaims]
Bearer(u) ==
    [scheme |-> "Bearer", parts |-> 3, claims |-> [sub |-> u, email |-> Email(u)]]
BearerGarbled == [scheme |-> "Bearer", parts |-> 2, claims |-> NoClaims]
\* a token whose middle part decodes to JSON that is not an object, as [1]
BearerArray == [scheme |-> "Bearer", parts |-> 3, claims |-> [array |-> TRUE]]

decode_jwt_payload(token) == IF token.parts # 3 THEN NoClaims ELSE token.claims

\* _extract_jwt_identity: the sub of the bearer token, "" when there is none
IsObject(claims) == "sub" \in DOMAIN claims

\* _extract_jwt_identity, line 1056: claims.get on truthy JSON that is not
\* an object raises AttributeError
IdentityRaises(auth) ==
    /\ auth.scheme = "Bearer"
    /\ decode_jwt_payload(auth) # NoClaims
    /\ ~IsObject(decode_jwt_payload(auth))

extract_jwt_identity(auth) ==
    IF auth.scheme # "Bearer" THEN ""
    ELSE IF decode_jwt_payload(auth) = NoClaims THEN ""
    ELSE IF IdentityRaises(auth) THEN ""
    ELSE decode_jwt_payload(auth).sub

Resp(status, code, json) == [status |-> status, code |-> code, body |-> json]

Idle ==
    [kind |-> "idle", pc |-> "idle", proc |-> 0, auth |-> NoAuth, key |-> NoKey,
     prefix |-> <<>>, days |-> 0, t0 |-> 0, readAt |-> NoTime, item |-> NoItem,
     items |-> {}, ok |-> TRUE, ident |-> "", via |-> "", resp |-> NoResp,
     calls |-> {}]

(***************************************************************************)
(* The key store and the fields of an item (create_api_key's item, plus    *)
(* the attributes the two updates set).  Timestamps are epoch seconds.     *)
(***************************************************************************)
NewItem(raw, user_sub, user_email, description, created, days) ==
    [key_hash |-> hash_api_key(raw),
     key_prefix |-> Take(raw, KEY_PREFIX_LEN),
     user_sub |-> user_sub,
     user_email |-> user_email,
     description |-> description,
     status |-> "active",
     created_at |-> created,
     expires_at |-> created + days * SECONDS_PER_DAY,
     ttl |-> created + days * SECONDS_PER_DAY + TTL_GRACE_DAYS * SECONDS_PER_DAY,
     revoked_at |-> NoTime,
     last_used_at |-> NoTime]

\* update_item on a key with no item creates one holding only what it sets
BareItem(h) ==
    [key_hash |-> h, key_prefix |-> <<>>, user_sub |-> "", user_email |-> <<>>,
     description |-> <<>>, status |-> "", created_at |-> NoTime,
     expires_at |-> NoTime, ttl |-> NoTime, revoked_at |-> NoTime,
     last_used_at |-> NoTime]

\* _lookup_api_key: table.get_item
lookup_api_key(h) == store[h]

\* a variant that scans the table whoever the owner is
list_every_key(user_sub) ==
    {store[h] : h \in {x \in Hashes : store[x] # NoItem}}

\* _list_user_keys: table.query on user-sub-index
list_user_keys(user_sub) ==
    {store[h] : h \in {x \in Hashes : store[x] # NoItem /\ store[x].user_sub = user_sub}}

\* _put_api_key: table.put_item
put_api_key(item) == [store EXCEPT ![item.key_hash] = item]

\* a job of the executor: _update_last_used(key_hash), and the time its
\* worker read for :now, NoTime until it has
Job(h) == [key_hash |-> h, now |-> NoTime]

\* a variant that writes the status along with last_used_at
update_last_used_and_status(h, stamp) ==
    [store EXCEPT ![h] =
        [(IF store[h] = NoItem THEN BareItem(h) ELSE store[h])
            EXCEPT !.last_used_at = stamp, !.status = "active"]]

\* _update_last_used: table.update_item SET last_used_at = :now, unconditional
update_last_used(h, stamp) ==
    [store EXCEPT ![h] =
        [(IF store[h] = NoItem THEN BareItem(h) ELSE store[h])
            EXCEPT !.last_used_at = stamp]]

\* _revoke_api_key: table.update_item, ConditionExpression user_sub = :sub
RevokeCondition(h, user_sub) == store[h] # NoItem /\ store[h].user_sub = user_sub

revoke_api_key_item(h) ==
    [store EXCEPT ![h] = [store[h] EXCEPT !.status = "revoked", !.revoked_at = now]]

\* generate_api_key: secrets.token_urlsafe(32) never repeats a key
FreshKeys == {k \in pool : store[hash_api_key(k)] = NoItem}

Finish(rec, status, code, json) ==
    [rec EXCEPT !.pc = "done", !.resp = Resp(status, code, json)]

\* the coroutine moves on; one that has answered is gone, its answer in last
Emit(r, rec) ==
    IF rec.pc = "done"
    THEN reqs' = [reqs EXCEPT ![r] = Idle] /\ last' = rec
    ELSE reqs' = [reqs EXCEPT ![r] = rec] /\ last' = Idle

(***************************************************************************)
(* api_key_auth_middleware on a path it does not bypass.                   *)
(***************************************************************************)
\* a variant whose entry lives API_KEY_CACHE_TTL from the insert
CacheEntryFromInsert(item, t0) ==
    [user_sub |-> item.user_sub, user_email |-> item.user_email,
     cache_expires |-> now + API_KEY_CACHE_TTL]

CacheEntry(item, t0) ==
    [user_sub |-> item.user_sub, user_email |-> item.user_email,
     cache_expires |-> t0 + API_KEY_CACHE_TTL]

CacheHit(p, h, t) == cache[p][h] # NoEntry /\ t < cache[p][h].cache_expires

\* lines 912-948 and the submission of the lookup at 953
AuthStart(r, p, auth, key) ==
    /\ reqs[r].kind = "idle"
    /\ LET rec == [Idle EXCEPT !.kind = "auth", !.proc = p, !.auth = auth,
                               !.key = key, !.t0 = now]
           h == hash_api_key(key)
       IN  IF auth.scheme = "Bearer"
           THEN LET claims == decode_jwt_payload(auth) IN
                /\ Emit(r,
                       Finish([rec EXCEPT
                                  !.via = IF claims # NoClaims THEN "jwt" ELSE "",
                                  !.ident = IF claims # NoClaims THEN claims.sub ELSE ""],
                              200, "handler", {}))
                /\ UNCHANGED touches
           ELSE IF key = NoKey \/ ~StartsWith(key, API_KEY_PREFIX)
           THEN /\ Emit(r,
                       Finish(rec, 401, "missing_credentials", {}))
                /\ UNCHANGED touches
           ELSE IF CacheHit(p, h, now)
           THEN /\ Emit(r,
                       Finish([rec EXCEPT !.via = "api_key",
                                          !.ident = cache[p][h].user_sub],
                              200, "handler", {}))
                /\ touches' = [touches EXCEPT ![p] = @ \cup {Job(h)}]
           ELSE /\ Emit(r,
                       [rec EXCEPT !.pc = "lookup", !.calls = {"get"}])
                /\ UNCHANGED touches
    /\ UNCHANGED <<store, cache, now, revokedOK, pool, exceptKeys>>

\* _lookup_api_key on a worker thread: the read, or an exception
AuthLookup(r) ==
    /\ reqs[r].kind = "auth" /\ reqs[r].pc = "lookup"
    /\ \E ok \in BOOLEAN :
         Emit(r,
             [reqs[r] EXCEPT
                 !.pc = "looked", !.ok = ok, !.readAt = now,
                 !.item = IF ok THEN lookup_api_key(hash_api_key(reqs[r].key))
                          ELSE NoItem])
    /\ UNCHANGED <<store, cache, touches, now, revokedOK, pool, exceptKeys>>

\* a variant that looks at the expiry before the status
AuthVerdictExpiryFirst(rec, t) ==
    IF ~rec.ok THEN Finish(rec, 500, "internal_error", {})
    ELSE IF rec.item = NoItem THEN Finish(rec, 401, "invalid_api_key", {})
    ELSE IF rec.item.expires_at # NoTime /\ rec.item.expires_at < t
    THEN Finish(rec, 401, "expired_api_key", {})
    ELSE IF rec.item.status # "active" THEN Finish(rec, 401, "revoked_api_key", {})
    ELSE Finish([rec EXCEPT !.via = "api_key", !.ident = rec.item.user_sub],
                200, "handler", {})

\* lines 954-1020: the coroutine resumes with the lookup's result
AuthVerdict(rec, t) ==
    IF ~rec.ok THEN Finish(rec, 500, "internal_error", {})
    ELSE IF rec.item = NoItem THEN Finish(rec, 401, "invalid_api_key", {})
    ELSE IF rec.item.status # "active" THEN Finish(rec, 401, "revoked_api_key", {})
    ELSE IF rec.item.expires_at # NoTime /\ rec.item.expires_at < t
    THEN Finish(rec, 401, "expired_api_key", {})
    ELSE Finish([rec EXCEPT !.via = "api_key", !.ident = rec.item.user_sub],
                200, "handler", {})

AuthResume(r) ==
    /\ reqs[r].kind = "auth" /\ reqs[r].pc = "looked"
    /\ LET rec == reqs[r]
           out == AuthVerdict(rec, now)
           h == hash_api_key(rec.key)
           p == rec.proc
       IN  /\ Emit(r, out)
           /\ IF out.resp.status = 200
              THEN /\ cache' = [cache EXCEPT ![p][h] = CacheEntry(rec.item, rec.t0)]
                   /\ touches' = [touches EXCEPT ![p] = @ \cup {Job(h)}]
              ELSE UNCHANGED <<cache, touches>>
    /\ UNCHANGED <<store, now, revokedOK, pool, exceptKeys>>

\* line 1037: a worker thread of the executor takes the job up and reads
\* the clock for :now, and its update_item is yet to reach the table
TouchStamp(p, h) ==
    /\ Job(h) \in touches[p]
    /\ touches' = [touches EXCEPT ![p] = (@ \ {Job(h)}) \cup {[Job(h) EXCEPT !.now = now]}]
    /\ last' = Idle
    /\ UNCHANGED <<store, cache, reqs, now, revokedOK, pool, exceptKeys>>

\* lines 1034-1040: the update_item of a job reaches the table, with the
\* time its worker read before, or read just now; a failure is logged and
\* dropped
Touch(p, job) ==
    /\ job \in touches[p]
    /\ touches' = [touches EXCEPT ![p] = @ \ {job}]
    /\ \E ok \in BOOLEAN :
         store' = IF ok
                  THEN update_last_used(job.key_hash,
                                        IF job.now = NoTime THEN now ELSE job.now)
                  ELSE store
    /\ last' = Idle
    /\ UNCHANGED <<cache, reqs, now, revokedOK, pool, exceptKeys>>

(***************************************************************************)
(* The key-lifecycle endpoints.  Each awaits the worker pool once or       *)
(* twice; StoreQuery is the _list_user_keys job the three of them submit.  *)
(***************************************************************************)
NoDays == -1
Junk == -2

\* lines 1076-1082: body.get("expires_in_days", 90), then int() or the default
CoerceDays(d) == IF d = NoDays \/ d = Junk THEN DEFAULT_EXPIRY_DAYS ELSE d

\* create_api_key, lines 1059-1095
CreateStart(r, p, auth, days) ==
    /\ reqs[r].kind = "idle"
    /\ LET rec == [Idle EXCEPT !.kind = "create", !.proc = p, !.auth = auth,
                               !.days = CoerceDays(days)]
       IN  Emit(r,
               IF IdentityRaises(auth)
               THEN Finish(rec, 500, "Internal Server Error", {})
               ELSE IF extract_jwt_identity(auth) = ""
               THEN Finish(rec, 401, "Authentication required", {})
               ELSE IF rec.days < MIN_EXPIRY_DAYS \/ rec.days > MAX_EXPIRY_DAYS
               THEN Finish(rec, 400, "expires_in_days", {})
               ELSE [rec EXCEPT !.pc = "list", !.calls = {"query"}])
    /\ UNCHANGED <<store, cache, touches, now, revokedOK, pool, exceptKeys>>

\* list_api_keys, lines 1172-1185
ListStart(r, p, auth) ==
    /\ reqs[r].kind = "idle"
    /\ LET rec == [Idle EXCEPT !.kind = "list", !.proc = p, !.auth = auth]
       IN  Emit(r,
               IF IdentityRaises(auth)
               THEN Finish(rec, 500, "Internal Server Error", {})
               ELSE IF extract_jwt_identity(auth) = ""
               THEN Finish(rec, 401, "Authentication required", {})
               ELSE [rec EXCEPT !.pc = "list", !.calls = {"query"}])
    /\ UNCHANGED <<store, cache, touches, now, revokedOK, pool, exceptKeys>>

\* revoke_api_key, lines 1215-1237
RevokeStart(r, p, auth, prefix) ==
    /\ reqs[r].kind = "idle"
    /\ LET rec == [Idle EXCEPT !.kind = "revoke", !.proc = p, !.auth = auth,
                               !.prefix = prefix]
       IN  Emit(r,
               IF IdentityRaises(auth)
               THEN Finish(rec, 500, "Internal Server Error", {})
               ELSE IF extract_jwt_identity(auth) = ""
               THEN Finish(rec, 401, "Authentication required", {})
               ELSE IF prefix = <<>>
               THEN Finish(rec, 400, "key_prefix is required", {})
               ELSE [rec EXCEPT !.pc = "list", !.calls = {"query"}])
    /\ UNCHANGED <<store, cache, touches, now, revokedOK, pool, exceptKeys>>

\* _list_user_keys on a worker thread: the query, or an exception
StoreQuery(r) ==
    /\ reqs[r].pc = "list"
    /\ \E ok \in BOOLEAN :
         Emit(r,
             [reqs[r] EXCEPT
                 !.pc = "listed", !.ok = ok,
                 !.items = IF ok
                           THEN list_user_keys(extract_jwt_identity(reqs[r].auth))
                           ELSE {}])
    /\ UNCHANGED <<store, cache, touches, now, revokedOK, pool, exceptKeys>>

\* a variant that counts every key of the user
AllKeys(items) == items

ActiveKeys(items) == {k \in items : k.status = "active"}

\* create_api_key, lines 1096-1137: the limit, then the new key and its item
CreateResume(r) ==
    /\ reqs[r].kind = "create" /\ reqs[r].pc = "listed"
    /\ LET rec == reqs[r]
           user_sub == extract_jwt_identity(rec.auth)
       IN  IF ~rec.ok
           THEN Emit(r, Finish(rec, 500, "Internal error", {})) /\ UNCHANGED pool
           ELSE IF Cardinality(ActiveKeys(rec.items)) >= MAX_KEYS_PER_USER
           THEN Emit(r, Finish(rec, 409, "Maximum", {})) /\ UNCHANGED pool
           ELSE \E raw_key \in FreshKeys :
                  /\ pool' = pool \ {raw_key}
                  /\ Emit(r,
                         [rec EXCEPT !.pc = "put", !.key = raw_key,
                                     !.calls = @ \cup {"put"},
                                     !.item = NewItem(raw_key, user_sub,
                                                      rec.auth.claims.email, <<>>,
                                                      now, rec.days)])
    /\ UNCHANGED <<store, cache, touches, now, revokedOK, exceptKeys>>

CreatedBody(raw_key, item) ==
    {[key |-> raw_key, key_prefix |-> item.key_prefix,
      description |-> item.description, status |-> "active",
      created_at |-> item.created_at, expires_at |-> item.expires_at]}

\* _put_api_key on a worker thread, and lines 1138-1169: 500 or the 201
CreatePut(r) ==
    /\ reqs[r].kind = "create" /\ reqs[r].pc = "put"
    /\ LET rec == reqs[r] IN
       \E ok \in BOOLEAN :
         /\ store' = IF ok THEN put_api_key(rec.item) ELSE store
         /\ Emit(r,
                IF ok THEN Finish(rec, 201, "created", CreatedBody(rec.key, rec.item))
                ELSE Finish(rec, 500, "Failed to create API key", {}))
    /\ UNCHANGED <<cache, touches, now, revokedOK, pool, exceptKeys>>

ListedKey(item) ==
    [key_prefix |-> item.key_prefix, description |-> item.description,
     status |-> item.status, created_at |-> item.created_at,
     expires_at |-> item.expires_at, last_used_at |-> item.last_used_at]

\* list_api_keys, lines 1186-1212
ListFinish(r) ==
    /\ reqs[r].kind = "list" /\ reqs[r].pc = "listed"
    /\ LET rec == reqs[r] IN
       Emit(r,
           IF ~rec.ok THEN Finish(rec, 500, "Internal error", {})
           ELSE Finish(rec, 200, "keys", {ListedKey(i) : i \in rec.items}))
    /\ UNCHANGED <<store, cache, touches, now, revokedOK, pool, exceptKeys>>

\* revoke_api_key, lines 1238-1273: the first item of the list with the prefix
\* (the index returns the user's items in no particular order)
RevokeResume(r) ==
    /\ reqs[r].kind = "revoke" /\ reqs[r].pc = "listed"
    /\ LET rec == reqs[r]
           matches == {i \in rec.items : i.key_prefix = rec.prefix}
       IN  IF ~rec.ok
           THEN Emit(r, Finish(rec, 500, "Internal error", {}))
           ELSE IF matches = {}
           THEN Emit(r, Finish(rec, 404, "API key not found", {}))
           ELSE \E target \in matches :
                  Emit(r,
                      IF target.status = "revoked"
                      THEN Finish(rec, 409, "API key already revoked", {})
                      ELSE [rec EXCEPT !.pc = "update", !.item = target,
                                       !.calls = @ \cup {"update"}])
    /\ UNCHANGED <<store, cache, touches, now, revokedOK, pool, exceptKeys>>

\* _revoke_api_key on a worker thread: the conditional update, or an exception
\* (a failed condition raises too)
RevokeUpdate(r) ==
    /\ reqs[r].kind = "revoke" /\ reqs[r].pc = "update"
    /\ LET rec == reqs[r]
           h == rec.item.key_hash
       IN  \E fail \in BOOLEAN :
             LET ok == ~fail /\ RevokeCondition(h, extract_jwt_identity(rec.auth)) IN
             /\ store' = IF ok THEN revoke_api_key_item(h) ELSE store
             /\ Emit(r, [rec EXCEPT !.pc = "updated", !.ok = ok])
    /\ UNCHANGED <<cache, touches, now, revokedOK, pool, exceptKeys>>

\* _api_key_cache.pop(target["key_hash"], None)
Evict(p, h) == [cache EXCEPT ![p][h] = NoEntry]

\* revoke_api_key, lines 1274-1300: 500, or the eviction and the 200
RevokeFinish(r) ==
    /\ reqs[r].kind = "revoke" /\ reqs[r].pc = "updated"
    /\ LET rec == reqs[r]
           h == rec.item.key_hash
       IN  IF ~rec.ok
           THEN /\ Emit(r,
                       Finish(rec, 500, "Failed to revoke API key", {}))
                /\ UNCHANGED <<cache, revokedOK>>
           ELSE /\ cache' = Evict(rec.proc, h)
                /\ revokedOK' = revokedOK \cup {<<rec.proc, h>>}
                /\ Emit(r,
                       Finish(rec, 200, "revoked",
                              {[status |-> "revoked", key_prefix |-> rec.prefix]}))
    /\ UNCHANGED <<store, touches, now, pool, exceptKeys>>

\* time passes; a store call that has read is not held back beyond LookupTimeout
Advance ==
    /\ now + Tick <= MaxTime
    /\ \A r \in ReqIds :
         reqs[r].pc = "looked" => now + Tick <= reqs[r].readAt + LookupTimeout
    /\ now' = now + Tick
    /\ last' = Idle
    /\ UNCHANGED <<store, cache, reqs, touches, revokedOK, pool, exceptKeys>>

AuthInputs == {NoAuth, Bearer("A"), Bearer("B"), BearerGarbled, BearerArray}
DaysInputs == {NoDays, Junk, 0, 366}

EmptyStore == [h \in Hashes |-> NoItem]
EmptyCache == [p \in Procs |-> [h \in Hashes |-> NoEntry]]

\* a key created DEFAULT_EXPIRY_DAYS before its expiry at time expires
Seeded(raw, user_sub, expires) ==
    NewItem(raw, user_sub, Email(user_sub), <<>>,
            expires - DEFAULT_EXPIRY_DAYS * SECONDS_PER_DAY, DEFAULT_EXPIRY_DAYS)

\* the steps of requests to an authenticated path: P the processes, R the
\* slots, K the keys presented
AuthSteps(P, R, K) ==
    \/ \E r \in R, p \in P, key \in K : AuthStart(r, p, NoAuth, key)
    \/ \E r \in R, p \in P : AuthStart(r, p, Bearer("A"), NoKey)
    \/ \E r \in R : AuthLookup(r)
    \/ \E r \in R : AuthResume(r)

\* the executor runs a pending _update_last_used job
TouchSteps(P) == \E p \in P : \E job \in touches[p] : Touch(p, job)

\* a worker reads the clock some time before its update reaches the table
TouchStampSteps(P) == \E p \in P, h \in Hashes : TouchStamp(p, h)

\* the steps of DELETE /v1/api-keys/{key_prefix}
RevokeSteps(P, R, A, PP) ==
    \/ \E r \in R, p \in P, auth \in A, prefix \in PP :
         RevokeStart(r, p, auth, prefix)
    \/ \E r \in R : StoreQuery(r)
    \/ \E r \in R : RevokeResume(r)
    \/ \E r \in R : RevokeUpdate(r)
    \/ \E r \in R : RevokeFinish(r)

\* the steps of POST and GET /v1/api-keys
CreateListSteps(P, R, A) ==
    \/ \E r \in R, p \in P, auth \in A, days \in DaysInputs :
         CreateStart(r, p, auth, days)
    \/ \E r \in R, p \in P, auth \in A : ListStart(r, p, auth)
    \/ \E r \in R : CreateResume(r)
    \/ \E r \in R : CreatePut(r)
    \/ \E r \in R : ListFinish(r)

(***************************************************************************)
(* translate_openai_to_converse.  A message content is a string, Str(c),   *)
(* or a list of parts, Parts(ps); the parts drawn are text parts (image    *)
(* parts are not among the inputs).  inferenceConfig and the thinking      *)
(* fields are copied from the body and are left out of the parameters.     *)
(***************************************************************************)
MaxMsgs == 3   \* the longest message list drawn

NoBody == [none |-> TRUE]
NoParams == [none |-> TRUE]
NoBack == <<<<[none |-> TRUE]>>>>
NoToolConfig == [none |-> TRUE]

Str(c) == [str |-> c]
Parts(ps) == [parts |-> ps]
IsStr(content) == "str" \in DOMAIN content
TextPart(t, cc) == [type |-> "text", text |-> t, cache_control |-> cc]

Text(t) == [text |-> t]
CachePoint == [cachePoint |-> [type |-> "default"]]
ToolUse(id, name, input) ==
    [toolUse |-> [toolUseId |-> id, name |-> name, input |-> input]]
ToolResult(id, result_content) ==
    [toolResult |-> [toolUseId |-> id, content |-> <<Text(result_content)>>]]

RECURSIVE Flatten(_)
Flatten(ss) == IF ss = <<>> THEN <<>> ELSE Head(ss) \o Flatten(Tail(ss))

\* json.dumps of a content that is not a string
JsonDumps(v) == [dumped |-> v]

\* a JSON object: the set of its members <<key, type, value>>
JsonObject(members) == [object |-> members]

\* the argument texts that parse, two of them spellings of one object
JsonObjects == {"{}", "{\"a\":1}", "{ \"a\": 1 }"}
json_loads(text) ==
    CASE text = "{}" -> JsonObject({})
      [] text \in {"{\"a\":1}", "{ \"a\": 1 }"} -> JsonObject({<<"a", "number", "1">>})

\* json.loads(args_str), or {"raw": args_str} when it does not parse
LoadArguments(args_str) ==
    IF args_str \in JsonObjects THEN json_loads(args_str)
    ELSE JsonObject({<<"raw", "string", args_str>>})

\* lines 286-295: the blocks a system message adds
SystemBlocks(content) ==
    IF IsStr(content) THEN <<Text(content.str)>>
    ELSE Flatten([i \in 1 .. Len(content.parts) |->
                    IF content.parts[i].type = "text"
                    THEN <<Text(content.parts[i].text)>> ELSE <<>>])

translate_content(content) ==
    IF IsStr(content) THEN <<Text(content.str)>>
    ELSE LET blocks ==
                 Flatten([i \in 1 .. Len(content.parts) |->
                    LET part == content.parts[i] IN
                    IF part.type = "text"
                    THEN <<Text(part.text)>>
                             \o (IF part.cache_control THEN <<CachePoint>> ELSE <<>>)
                    ELSE <<>>])
         IN  IF blocks = <<>> THEN <<Text("")>> ELSE blocks

\* lines 297-320: a tool message joins the user message before it, or makes one
AppendToolResult(converse_messages, msg) ==
    LET result_content ==
            IF IsStr(msg.content) THEN msg.content.str ELSE JsonDumps(msg.content.parts)
        tool_result_block == ToolResult(msg.tool_call_id, result_content)
        n == Len(converse_messages)
    IN  IF n > 0 /\ converse_messages[n].role = "user"
        THEN [converse_messages EXCEPT ![n].content = Append(@, tool_result_block)]
        ELSE Append(converse_messages,
                    [role |-> "user", content |-> <<tool_result_block>>])

\* lines 322-349: any other message is appended under its own role
AppendMessage(converse_messages, msg) ==
    LET converse_content == translate_content(msg.content)
        stripped ==
            SelectSeq(converse_content,
                      LAMBDA b : ~("text" \in DOMAIN b /\ b.text = ""))
        uses == [i \in 1 .. Len(msg.tool_calls) |->
                    ToolUse(msg.tool_calls[i].id, msg.tool_calls[i].name,
                            LoadArguments(msg.tool_calls[i].arguments))]
    IN  Append(converse_messages,
               [role |-> msg.role,
                content |-> IF msg.role = "assistant" /\ "tool_calls" \in DOMAIN msg
                            THEN stripped \o uses
                            ELSE converse_content])

\* lines 282-349: the loop over the messages, from its state after i - 1 of them
RECURSIVE TranslateFrom(_, _, _, _)
TranslateFrom(messages, i, system_blocks, converse_messages) ==
    IF i > Len(messages)
    THEN [system_blocks |-> system_blocks, converse_messages |-> converse_messages]
    ELSE LET msg == messages[i] IN
         IF msg.role = "system"
         THEN TranslateFrom(messages, i + 1,
                            system_blocks \o SystemBlocks(msg.content),
                            converse_messages)
         ELSE IF msg.role = "tool"
         THEN TranslateFrom(messages, i + 1, system_blocks,
                            AppendToolResult(converse_messages, msg))
         ELSE TranslateFrom(messages, i + 1, system_blocks,
                            AppendMessage(converse_messages, msg))

ToolSpec(name, description) ==
    [toolSpec |-> [name |-> name, description |-> description]]

\* lines 379-393: the tools of the body that are functions
BodyTools(tools) ==
    Flatten([i \in 1 .. Len(tools) |->
                IF tools[i].type = "function"
                THEN <<ToolSpec(tools[i].name, tools[i].description)>> ELSE <<>>])

\* sorted(seen_tool_names): the names in alphabetical order
NameOrder == <<"", "f", "g">>
Sorted(names) == SelectSeq(NameOrder, LAMBDA n : n \in names)

\* the blocks of the history that hold the given key, by message and place
BlocksWith(converse_messages, key) ==
    {x \in (1 .. Len(converse_messages)) \X (1 .. MaxMsgs + 1) :
        /\ x[2] <= Len(converse_messages[x[1]].content)
        /\ key \in DOMAIN converse_messages[x[1]].content[x[2]]}

\* lines 398-405: the tools named by the toolUse blocks of the history; the
\* discard at 405 is modelled as made after every name is in
seen_tool_names(converse_messages) ==
    LET named == {converse_messages[x[1]].content[x[2]].toolUse.name :
                     x \in BlocksWith(converse_messages, "toolUse")}
    IN  IF BlocksWith(converse_messages, "toolResult") # {}
        THEN named \ {""} ELSE named

SynthTools(names) ==
    LET named == SelectSeq(Sorted(names), LAMBDA n : n # "") IN
    [i \in 1 .. Len(named) |-> ToolSpec(named[i], "Tool from conversation history")]

WithCachePoint(blocks, enable_cache) ==
    IF enable_cache THEN Append(blocks, CachePoint) ELSE blocks

translate_openai_to_converse(b, enable_cache) ==
    LET out == TranslateFrom(b.messages, 1, <<>>, <<>>)
        tools == IF "tools" \in DOMAIN b THEN BodyTools(b.tools) ELSE <<>>
        names == seen_tool_names(out.converse_messages)
    IN  [modelId |-> b.model,
         messages |-> out.converse_messages,
         system |-> IF out.system_blocks # <<>>
                    THEN WithCachePoint(out.system_blocks, enable_cache)
                    ELSE <<>>,
         toolConfig |->
            IF tools # <<>> THEN [tools |-> WithCachePoint(tools, enable_cache)]
            ELSE IF names # {}
            THEN [tools |-> WithCachePoint(SynthTools(names), enable_cache)]
            ELSE NoToolConfig]

\* the messages and bodies drawn
ToolCall(id, name, arguments) == [id |-> id, name |-> name, arguments |-> arguments]
Messages ==
    {[role |-> "system", content |-> Str("be brief")],
     [role |-> "user", content |-> Str("hi")],
     [role |-> "user", content |-> Parts(<<TextPart("doc", TRUE)>>)],
     [role |-> "assistant", content |-> Str("hello")],
     [role |-> "assistant", content |-> Parts(<<TextPart("", TRUE)>>),
      tool_calls |-> <<ToolCall("t1", "f", "{}")>>],
     [role |-> "assistant", content |-> Str("calling"),
      tool_calls |-> <<ToolCall("t2", "g", "{\"a\":1}"), ToolCall("t3", "f", "{ \"a\": 1 }")>>],
     [role |-> "assistant", content |-> Str(""),
      tool_calls |-> <<ToolCall("t4", "g", "{\"a\":")>>],
     [role |-> "tool", content |-> Str("42"), tool_call_id |-> "t1"],
     [role |-> "tool", content |-> Parts(<<TextPart("doc", FALSE)>>), tool_call_id |-> "t2"]}

MessageLists == UNION {[1 .. n -> Messages] : n \in 0 .. MaxMsgs}

Bodies ==
    {[model |-> "claude", messages |-> ms] : ms \in MessageLists}
        \cup {[model |-> "claude", messages |-> ms,
               tools |-> <<[type |-> "function", name |-> "g", description |-> "d"]>>] :
                 ms \in MessageLists}

\* a call of translate_openai_to_converse (handle_anthropic_streaming passes
\* enable_cache = True, a direct caller may leave it False)
Translate(b, enable_cache) ==
    /\ body = NoBody
    /\ body' = b
    /\ params' = translate_openai_to_converse(b, enable_cache)
    /\ UNCHANGED back
    /\ UNCHANGED exceptTranslate

(***************************************************************************)
(* handle_anthropic_streaming.  The upstream stream yields its events in   *)
(* the order of the ConverseStream protocol: messageStart, the content     *)
(* blocks, messageStop, metadata; it may raise at any pull.  A write to a  *)
(* client that has closed its connection raises, and so does every write   *)
(* after it.                                                               *)
(***************************************************************************)
MaxContent == 3   \* the most content-block events one stream yields
MaxChunks == 2   \* the most chunks one upstream body is read in

\* a JSON object as the set of its <<key, value>> members; dict.get on it
Dict(members) == members
DictGet(dict, key, default) ==
    IF \E m \in dict : m[1] = key
    THEN (CHOOSE m \in dict : m[1] = key)[2]
    ELSE default

\* the usage objects Bedrock reports: no counts, some of the four counts,
\* zero cache counts, and a count the router does not read
Usages ==
    {Dict({}),
     Dict({<<"inputTokens", 3>>, <<"outputTokens", 2>>}),
     Dict({<<"inputTokens", 3>>}),
     Dict({<<"outputTokens", 2>>, <<"cacheReadInputTokens", 5>>}),
     Dict({<<"inputTokens", 3>>, <<"outputTokens", 2>>, <<"cacheWriteInputTokens", 4>>}),
     Dict({<<"inputTokens", 3>>, <<"outputTokens", 2>>,
           <<"cacheReadInputTokens", 0>>, <<"cacheWriteInputTokens", 0>>}),
     Dict({<<"inputTokens", 3>>, <<"outputTokens", 2>>,
           <<"cacheReadInputTokens", 5>>, <<"cacheWriteInputTokens", 4>>}),
     Dict({<<"totalTokens", 5>>})}

\* those of them a stream's metadata event is drawn from
StreamUsages ==
    {Dict({}),
     Dict({<<"inputTokens", 3>>, <<"outputTokens", 2>>}),
     Dict({<<"outputTokens", 2>>, <<"cacheReadInputTokens", 5>>})}

MessageStart == [type |-> "messageStart"]
\* start.toolUse of a contentBlockStart: with its id and name, or bare
ToolUseStarts == {Dict({<<"toolUseId", "tu-1">>, <<"name", "f">>}), Dict({})}
BlockStart(tool, tu) ==
    [type |-> "contentBlockStart", toolUse |-> tool, tu |-> tu]
BlockDelta(kind, text) == [type |-> "contentBlockDelta", delta |-> kind, text |-> text]
BlockStop == [type |-> "contentBlockStop"]
MessageStop(stop_reason) == [type |-> "messageStop", stopReason |-> stop_reason]
Metadata(usage) == [type |-> "metadata", usage |-> usage]

ContentTypes == {"contentBlockStart", "contentBlockDelta", "contentBlockStop"}
StopReasons ==
    {"(absent)", "end_turn", "stop_sequence", "tool_use", "max_tokens",
     "content_filtered", "guardrail_intervened"}

\* the block the events so far have left open: "none", "text" or "toolUse"
RECURSIVE OpenBlock(_)
OpenBlock(events) ==
    IF events = <<>> THEN "none"
    ELSE LET e == events[Len(events)] IN
         IF e.type = "contentBlockStop" \/ e.type = "messageStart" THEN "none"
         ELSE IF e.type = "contentBlockStart"
         THEN IF e.toolUse THEN "toolUse" ELSE "text"
         ELSE IF e.type = "contentBlockDelta" /\ OpenBlock(SubSeq(events, 1, Len(events) - 1)) = "none"
         THEN "text"
         ELSE OpenBlock(SubSeq(events, 1, Len(events) - 1))

ContentCount(events) ==
    Cardinality({i \in DOMAIN events : events[i].type \in ContentTypes})

\* the events the protocol allows next
NextEvents(events) ==
    IF events = <<>> THEN {MessageStart}
    ELSE LET e == events[Len(events)] IN
         IF e.type = "metadata" THEN {}
         ELSE IF e.type = "messageStop" THEN {Metadata(u) : u \in StreamUsages}
         ELSE (IF OpenBlock(events) = "none"
               THEN {MessageStop(sr) : sr \in StopReasons}
               ELSE {})
              \cup
              (IF ContentCount(events) >= MaxContent THEN
                   IF OpenBlock(events) = "none" THEN {} ELSE {BlockStop}
               ELSE IF OpenBlock(events) = "none"
               THEN {BlockStart(TRUE, tu) : tu \in ToolUseStarts}
                        \cup {BlockDelta("text", "x")}
               ELSE IF OpenBlock(events) = "toolUse"
               THEN {BlockDelta("toolUse", "x"), BlockDelta("toolUse", ""), BlockStop}
               ELSE {BlockDelta("text", "x"), BlockDelta("reasoningContent", "x"),
                     BlockDelta("reasoningContent", ""), BlockStop})

\* the iterator is exhausted once the message has stopped
CanEnd(events) ==
    events # <<>> /\ events[Len(events)].type \in {"messageStop", "metadata"}

\* a variant that hands the Converse stop reason on as it is
PassStopReason(stop_reason) == stop_reason

\* _map_stop_reason, lines 567-576
map_stop_reason(stop_reason) ==
    CASE stop_reason = "end_turn" -> "stop"
      [] stop_reason = "stop_sequence" -> "stop"
      [] stop_reason = "tool_use" -> "tool_calls"
      [] stop_reason = "max_tokens" -> "length"
      [] stop_reason = "content_filtered" -> "content_filter"
      [] OTHER -> "stop"

\* a variant that leaves the completion tokens out of the total
PromptOnly(prompt_tok, completion_tok) == prompt_tok

\* line 490
TotalTokens(prompt_tok, completion_tok) == prompt_tok + completion_tok

\* a variant that looks at the cache reads only
HasCacheRead(cache_read, cache_write) == cache_read # 0

\* line 494
HasCacheTokens(cache_read, cache_write) == cache_read # 0 \/ cache_write # 0

\* _build_usage, lines 483-500
build_usage(usage) ==
    LET prompt_tok == DictGet(usage, "inputTokens", 0)
        completion_tok == DictGet(usage, "outputTokens", 0)
        cache_read == DictGet(usage, "cacheReadInputTokens", 0)
        cache_write == DictGet(usage, "cacheWriteInputTokens", 0)
    IN  IF HasCacheTokens(cache_read, cache_write)
        THEN [prompt_tokens |-> prompt_tok,
              completion_tokens |-> completion_tok,
              total_tokens |-> TotalTokens(prompt_tok, completion_tok),
              prompt_tokens_details |-> [cached_tokens |-> cache_read],
              cache_read_input_tokens |-> cache_read,
              cache_creation_input_tokens |-> cache_write]
        ELSE [prompt_tokens |-> prompt_tok,
              completion_tokens |-> completion_tok,
              total_tokens |-> TotalTokens(prompt_tok, completion_tok)]

NoIndex == 0 - 1
Frame(kind, ev, index, finish_reason) ==
    [kind |-> kind, ev |-> ev, index |-> index, finish_reason |-> finish_reason]
\* lines 754-770: the usage chunk, its choices empty
UsageFrame(ev, usage) ==
    [kind |-> "usage", ev |-> ev, index |-> NoIndex, finish_reason |-> "",
     usage |-> usage]
DoneFrame == Frame("done", 0, NoIndex, "")
ErrorFrame == Frame("error", 0, NoIndex, "")
NoFrame == [none |-> TRUE]

\* lines 671-687: the chunk that opens a tool call
ToolStartFrame(ev, idx, tu) ==
    [kind |-> "tool_start", ev |-> ev, index |-> idx, finish_reason |-> "",
     id |-> DictGet(tu, "toolUseId", ""), type |-> "function",
     name |-> DictGet(tu, "name", ""), arguments |-> ""]

\* a variant that counts every block that ends as well
ToolIdxPerBlock(idx, event) ==
    IF (event.type = "contentBlockStart" /\ event.toolUse)
           \/ event.type = "contentBlockStop"
    THEN idx + 1 ELSE idx

\* lines 667-670: tool_idx after an event
ToolIdxAfter(idx, event) ==
    IF event.type = "contentBlockStart" /\ event.toolUse THEN idx + 1 ELSE idx

\* lines 665-755: the chunk event number ev gives rise to, if any; idx is
\* tool_idx after the event
ChunkFor(event, ev, idx) ==
    IF event.type = "messageStart" THEN Frame("role", ev, NoIndex, "")
    ELSE IF event.type = "contentBlockStart"
    THEN IF event.toolUse THEN ToolStartFrame(ev, idx, event.tu) ELSE NoFrame
    ELSE IF event.type = "contentBlockDelta"
    THEN IF event.delta = "text" THEN Frame("content", ev, NoIndex, "")
         ELSE IF event.delta = "reasoningContent"
         THEN IF event.text # "" THEN Frame("reasoning", ev, NoIndex, "") ELSE NoFrame
         ELSE IF event.delta = "toolUse"
         THEN IF event.text # "" THEN Frame("tool_args", ev, idx, "") ELSE NoFrame
         ELSE NoFrame
    ELSE IF event.type = "messageStop"
    THEN Frame("finish", ev, NoIndex,
               map_stop_reason(IF event.stopReason = "(absent)" THEN "end_turn"
                               ELSE event.stopReason))
    ELSE IF event.type = "metadata"
    THEN IF event.usage # Dict({}) THEN UsageFrame(ev, build_usage(event.usage))
         ELSE NoFrame
    ELSE NoFrame

\* a variant that puts the frame ahead of those written before it
WriteFrameAhead(written, frame) == <<frame>> \o written

\* _write_sse: the frame goes out after those written before it
WriteFrame(written, frame) == Append(written, frame)

\* a variant in which a write to a closed connection is dropped in silence
WriteOrDrop(frame, ok, raised) ==
    IF client_open
    THEN frames' = WriteFrame(frames, frame) /\ stream_pc' = ok
    ELSE frames' = frames /\ stream_pc' = ok

\* await _write_sse(...) at a point of the handler: on to pc ok, or the
\* write raises and control goes to pc raised
Write(frame, ok, raised) ==
    IF client_open
    THEN frames' = WriteFrame(frames, frame) /\ stream_pc' = ok
    ELSE frames' = frames /\ stream_pc' = raised

\* what str(e) of a failed upstream call may hold
Exceptions ==
    {"ThrottlingException: Too many requests",
     "AccessDeniedException: arn:aws:iam::123456789012:role/router"}

\* lines 630-655: the response is prepared and converse_stream submitted
StreamStart ==
    /\ stream_pc = "idle"
    /\ stream_pc' = "call"
    /\ UNCHANGED <<delivered, frames, tool_idx, client_open, eof_sent, upstream_exc,
                   exceptSse>>

\* converse_stream raises
CallRaises ==
    /\ stream_pc = "call"
    /\ stream_pc' = "err_chunk"
    /\ \E e \in Exceptions : upstream_exc' = e
    /\ UNCHANGED <<delivered, frames, tool_idx, client_open, eof_sent, exceptSse>>

\* lines 656-660: the response holds no stream
CallNoStream ==
    /\ stream_pc = "call"
    /\ stream_pc' = "done_frame"
    /\ UNCHANGED <<delivered, frames, tool_idx, client_open, eof_sent, upstream_exc,
                   exceptSse>>

\* line 662
CallOpens ==
    /\ stream_pc = "call"
    /\ stream_pc' = "pull"
    /\ tool_idx' = 0 - 1
    /\ UNCHANGED <<delivered, frames, client_open, eof_sent, upstream_exc, exceptSse>>

\* one turn of the loop at 664: the next event and the chunk written for it
PullEvent(event) ==
    /\ stream_pc = "pull"
    /\ event \in NextEvents(delivered)
    /\ delivered' = Append(delivered, event)
    /\ tool_idx' = ToolIdxAfter(tool_idx, event)
    /\ LET chunk == ChunkFor(event, Len(delivered) + 1, tool_idx') IN
       IF chunk = NoFrame
       THEN UNCHANGED <<frames, stream_pc>>
       ELSE Write(chunk, "pull", "err_chunk")
    /\ UNCHANGED <<client_open, eof_sent, upstream_exc, exceptSse>>

\* _iter_stream_events: next(iterator, None) returns None
PullEnd ==
    /\ stream_pc = "pull"
    /\ CanEnd(delivered)
    /\ stream_pc' = "done_frame"
    /\ UNCHANGED <<delivered, frames, tool_idx, client_open, eof_sent, upstream_exc,
                   exceptSse>>

\* the iterator raises
PullRaises ==
    /\ stream_pc = "pull"
    /\ stream_pc' = "err_chunk"
    /\ \E e \in Exceptions : upstream_exc' = e
    /\ UNCHANGED <<delivered, frames, tool_idx, client_open, eof_sent, exceptSse>>

\* lines 658 and 773
WriteDone ==
    /\ stream_pc = "done_frame"
    /\ Write(DoneFrame, "eof", "err_chunk")
    /\ UNCHANGED <<delivered, tool_idx, client_open, eof_sent, upstream_exc, exceptSse>>

\* a variant in which write_eof may raise with the client still connected
WriteEofFlaky ==
    /\ stream_pc = "eof"
    /\ \E ok \in BOOLEAN :
         IF ok /\ client_open
         THEN eof_sent' = TRUE /\ stream_pc' = "returned"
         ELSE eof_sent' = eof_sent /\ stream_pc' = "err_chunk"
    /\ UNCHANGED <<delivered, frames, tool_idx, client_open, upstream_exc, exceptSse>>

\* lines 659-660 and 774-775
WriteEof ==
    /\ stream_pc = "eof"
    /\ IF client_open
       THEN eof_sent' = TRUE /\ stream_pc' = "returned"
       ELSE eof_sent' = eof_sent /\ stream_pc' = "err_chunk"
    /\ UNCHANGED <<delivered, frames, tool_idx, client_open, upstream_exc, exceptSse>>

\* lines 777-797: the error chunk, [DONE] and write_eof, given up at the
\* first of them that raises
ErrChunk ==
    /\ stream_pc = "err_chunk"
    /\ Write(ErrorFrame, "err_done", "returned")
    /\ UNCHANGED <<delivered, tool_idx, client_open, eof_sent, upstream_exc, exceptSse>>

ErrDone ==
    /\ stream_pc = "err_done"
    /\ Write(DoneFrame, "err_eof", "returned")
    /\ UNCHANGED <<delivered, tool_idx, client_open, eof_sent, upstream_exc, exceptSse>>

ErrEof ==
    /\ stream_pc = "err_eof"
    /\ stream_pc' = "returned"
    /\ eof_sent' = client_open
    /\ UNCHANGED <<delivered, frames, tool_idx, client_open, upstream_exc, exceptSse>>

\* the client closes its connection while the handler runs
ClientDisconnect ==
    /\ stream_pc \notin {"idle", "returned"}
    /\ client_open
    /\ client_open' = FALSE
    /\ UNCHANGED <<stream_pc, delivered, frames, tool_idx, eof_sent, upstream_exc,
                   exceptSse>>

Events ==
    {MessageStart, BlockStop}
        \cup {BlockStart(TRUE, tu) : tu \in ToolUseStarts}
        \cup {BlockDelta(k, t) : k \in {"text", "reasoningContent", "toolUse"},
                                 t \in {"", "x"}}
        \cup {MessageStop(sr) : sr \in StopReasons}
        \cup {Metadata(u) : u \in StreamUsages}

(***************************************************************************)
(* The middlewares of app: version_gate_middleware, then                   *)
(* api_key_auth_middleware, then request_logging_middleware, then the      *)
(* route handler.  Paths are sequences of segments and versions sequences  *)
(* of characters.  The authenticator's own steps are AuthStart, AuthLookup *)
(* and AuthResume above; its answer comes back in last.                    *)
(***************************************************************************)
VERSION_POLICY_TTL == 300

Absent == "(absent)"           \* a header the request does not carry
FreshUuid == "uuid4"           \* str(uuid.uuid4())
NoVersion == <<"None">>        \* None, where a version string is expected
Unparsed == <<>>               \* _parse_semver: None

Digits == <<"0", "1", "2", "3", "4", "5", "6", "7", "8", "9">>
IsDigit(c) == \E i \in DOMAIN Digits : Digits[i] = c
DigitValue(c) == (CHOOSE i \in DOMAIN Digits : Digits[i] = c) - 1

\* int(s) for a sequence of decimal digits; anything else drawn raises
IsInt(s) == s # <<>> /\ \A i \in DOMAIN s : IsDigit(s[i])
RECURSIVE ToInt(_)
ToInt(s) ==
    IF s = <<>> THEN 0
    ELSE ToInt(SubSeq(s, 1, Len(s) - 1)) * 10 + DigitValue(s[Len(s)])

\* s.lstrip(c)
RECURSIVE LStrip(_, _)
LStrip(s, c) == IF s # <<>> /\ Head(s) = c THEN LStrip(Tail(s), c) ELSE s

\* where c first occurs in s, 0 when it does not
IndexOf(s, c) ==
    IF \E i \in DOMAIN s : s[i] = c
    THEN CHOOSE i \in DOMAIN s : s[i] = c /\ \A j \in 1 .. i - 1 : s[j] # c
    ELSE 0

\* s.split(c)[0] and the rest after the first c
Before(s, c) == IF IndexOf(s, c) = 0 THEN s ELSE SubSeq(s, 1, IndexOf(s, c) - 1)
After(s, c) == SubSeq(s, IndexOf(s, c) + 1, Len(s))

\* s.split(".", 2)
SplitDots(s) ==
    IF IndexOf(s, ".") = 0 THEN <<s>>
    ELSE LET rest == After(s, ".") IN
         IF IndexOf(rest, ".") = 0 THEN <<Before(s, "."), rest>>
         ELSE <<Before(s, "."), Before(rest, "."), After(rest, ".")>>

parse_semver(version) ==
    LET parts == SplitDots(LStrip(version, "v")) IN
    IF Len(parts) # 3 THEN Unparsed
    ELSE LET patch_str == Before(Before(parts[3], "-"), "+") IN
         IF IsInt(parts[1]) /\ IsInt(parts[2]) /\ IsInt(patch_str)
         THEN <<ToInt(parts[1]), ToInt(parts[2]), ToInt(patch_str)>>
         ELSE Unparsed

\* a variant that wants every component smaller
TupleAllLess(a, b) == a[1] < b[1] /\ a[2] < b[2] /\ a[3] < b[3]

\* client_parsed < min_parsed, on tuples of three integers
TupleLess(a, b) ==
    \/ a[1] < b[1]
    \/ a[1] = b[1] /\ a[2] < b[2]
    \/ a[1] = b[1] /\ a[2] = b[2] /\ a[3] < b[3]

HttpResp(status, code, request_id) ==
    [status |-> status, code |-> code, request_id |-> request_id]
NoHttpResp == HttpResp(0, "", Absent)

HttpIdle ==
    [pc |-> "idle", path |-> <<>>, rid |-> Absent, client_version |-> <<>>,
     auth |-> NoAuth, key |-> NoKey, minimum |-> NoVersion, request_id |-> Absent,
     auth_source |-> "", user_sub |-> "", s3_calls |-> 0, log |-> <<>>,
     resp |-> NoHttpResp]

IsHealthPath(path) ==
    path = <<"health">> \/ path = <<"ready">> \/ (Len(path) > 1 /\ path[1] = "health")
\* a variant that knows only the bare /v1/update
IsUpdateRoot(path) == path = <<"v1", "update">>

IsUpdatePath(path) == Len(path) > 2 /\ StartsWith(path, <<"v1", "update">>)
IsApiKeysPath(path) == StartsWith(path, <<"v1", "api-keys">>)

\* app, lines 1738-1744: the middlewares, outermost first
middlewares == <<"gate", "auth", "logger">>

\* a variant with the authenticator left out of the chain
CallNextSkippingAuth(stage) == IF stage = "logger" THEN "handler" ELSE "logger"

\* await handler(request) in a middleware: the stage that runs next
CallNext(stage) ==
    LET i == CHOOSE k \in DOMAIN middlewares : middlewares[k] = stage
    IN  IF i < Len(middlewares) THEN middlewares[i + 1] ELSE "handler"

\* a request arrives
Receive(path, rid, client_version, auth, key) ==
    /\ http.pc = "idle"
    /\ http' = [HttpIdle EXCEPT !.pc = middlewares[1], !.path = path, !.rid = rid,
                                !.client_version = client_version,
                                !.auth = auth, !.key = key]
    /\ UNCHANGED <<version_policy, DISTRIBUTION_BUCKET, keyVars, exceptGate>>

\* version_gate_middleware, lines 109-132
GateStart ==
    /\ http.pc = "gate"
    /\ http' = [http EXCEPT !.pc =
                   IF \/ IsHealthPath(http.path) \/ IsUpdatePath(http.path)
                      \/ http.client_version = <<>>
                      \/ http.client_version = <<"d", "e", "v">>
                   THEN CallNext("gate") ELSE "policy"]
    /\ UNCHANGED <<version_policy, DISTRIBUTION_BUCKET, keyVars, exceptGate>>

\* a variant that forgets the cached minimum when the fetch fails
fetch_version_policy_or_forget(policy, t, bucket, fetched, manifest) ==
    IF policy.minimum # NoVersion /\ t < policy.fetched_at + VERSION_POLICY_TTL
    THEN [policy |-> policy, minimum |-> policy.minimum, s3_calls |-> 0]
    ELSE IF ~bucket
    THEN [policy |-> policy, minimum |-> NoVersion, s3_calls |-> 0]
    ELSE IF fetched
    THEN [policy |-> [minimum |-> manifest, fetched_at |-> t],
          minimum |-> manifest, s3_calls |-> 1]
    ELSE [policy |-> [minimum |-> NoVersion, fetched_at |-> 0],
          minimum |-> NoVersion, s3_calls |-> 1]

\* _fetch_version_policy, lines 81-106, called at time t: _version_policy
\* after the call, the minimum returned, and the get_object calls made;
\* manifest is the minimum that version.json holds, fetched says whether S3
\* gave it
fetch_version_policy(policy, t, bucket, fetched, manifest) ==
    IF policy.minimum # NoVersion /\ t < policy.fetched_at + VERSION_POLICY_TTL
    THEN [policy |-> policy, minimum |-> policy.minimum, s3_calls |-> 0]
    ELSE IF ~bucket
    THEN [policy |-> policy, minimum |-> NoVersion, s3_calls |-> 0]
    ELSE IF fetched
    THEN [policy |-> [minimum |-> manifest, fetched_at |-> t],
          minimum |-> manifest, s3_calls |-> 1]
    ELSE [policy |-> policy, minimum |-> policy.minimum, s3_calls |-> 1]

\* line 133: _fetch_version_policy on a worker thread
GateFetch(fetched, manifest) ==
    /\ http.pc = "policy"
    /\ LET out == fetch_version_policy(version_policy, now, DISTRIBUTION_BUCKET,
                                       fetched, manifest)
       IN  /\ version_policy' = out.policy
           /\ http' = [http EXCEPT !.pc = "gated", !.minimum = out.minimum,
                                   !.s3_calls = out.s3_calls]
    /\ UNCHANGED <<DISTRIBUTION_BUCKET, keyVars, exceptGate>>

\* version_gate_middleware, lines 133-184
GateResume ==
    /\ http.pc = "gated"
    /\ LET client_parsed == parse_semver(http.client_version)
           min_parsed == parse_semver(http.minimum)
       IN  http' =
             IF http.minimum = NoVersion \/ http.minimum = <<>>
             THEN [http EXCEPT !.pc = CallNext("gate")]
             ELSE IF client_parsed = Unparsed \/ min_parsed = Unparsed
             THEN [http EXCEPT !.pc = CallNext("gate")]
             ELSE IF TupleLess(client_parsed, min_parsed)
             THEN [http EXCEPT !.pc = "done",
                               !.resp = HttpResp(426, "client_outdated", Absent)]
             ELSE [http EXCEPT !.pc = CallNext("gate")]
    /\ UNCHANGED <<version_policy, DISTRIBUTION_BUCKET, keyVars, exceptGate>>

\* api_key_auth_middleware, lines 904-910
AuthBypass ==
    /\ http.pc = "auth"
    /\ IsHealthPath(http.path) \/ IsApiKeysPath(http.path) \/ IsUpdatePath(http.path)
    /\ http' = [http EXCEPT !.pc = CallNext("auth")]
    /\ UNCHANGED <<version_policy, DISTRIBUTION_BUCKET, keyVars, exceptGate>>

\* api_key_auth_middleware from line 912 on, for the request in the pipeline
AuthEnter ==
    /\ http.pc = "auth"
    /\ ~(IsHealthPath(http.path) \/ IsApiKeysPath(http.path) \/ IsUpdatePath(http.path))
    /\ last.kind # "auth"
    /\ AuthStart(1, 1, http.auth, http.key)

\* the authenticator returns its own response, or the next stage's
AuthReturn ==
    /\ http.pc = "auth"
    /\ last.kind = "auth"
    /\ http' = IF last.resp.code = "handler"
               THEN [http EXCEPT !.pc = CallNext("auth"), !.auth_source = last.via,
                                 !.user_sub = last.ident]
               ELSE [http EXCEPT !.pc = "done",
                                 !.resp = HttpResp(last.resp.status, last.resp.code,
                                                   Absent)]
    /\ last' = Idle
    /\ UNCHANGED <<store, cache, reqs, touches, now, revokedOK, pool>>
    /\ UNCHANGED <<version_policy, DISTRIBUTION_BUCKET, exceptGate>>

\* a variant that logs the requests on health paths as well
LogEventOnEveryPath(h, event) ==
    Append(h.log, [event |-> event, request_id |-> h.request_id])

\* the log.info and log.error calls at 1397, 1415 and 1435, which the branch
\* at 1386-1391 for the health paths does not reach: the request's log after
\* the call
LogEvent(h, event) ==
    IF IsHealthPath(h.path) THEN h.log
    ELSE Append(h.log, [event |-> event, request_id |-> h.request_id])

\* request_logging_middleware, lines 1382-1412, up to the call of the handler
LogStart ==
    /\ http.pc = "logger"
    /\ LET h == [http EXCEPT !.request_id = IF http.rid # Absent THEN http.rid
                                            ELSE FreshUuid]
       IN  http' = [h EXCEPT !.pc = CallNext("logger"),
                             !.log = LogEvent(h, "Request started")]
    /\ UNCHANGED <<version_policy, DISTRIBUTION_BUCKET, keyVars, exceptGate>>

\* the route handler returns a response, and lines 1389-1391 and 1413-1431
\* put the request id on it; or it raises, line 1448 raises again, and the
\* response is the server's own 500
HandlerReturns(status) ==
    /\ http.pc = "handler"
    /\ http' = [http EXCEPT !.pc = "done",
                            !.log = LogEvent(http, "Request completed"),
                            !.resp = HttpResp(status, "handler", http.request_id)]
    /\ UNCHANGED <<version_policy, DISTRIBUTION_BUCKET, keyVars, exceptGate>>

HandlerRaises ==
    /\ http.pc = "handler"
    /\ http' = [http EXCEPT !.pc = "done",
                            !.log = LogEvent(http, "Request failed"),
                            !.resp = HttpResp(500, "unhandled", Absent)]
    /\ UNCHANGED <<version_policy, DISTRIBUTION_BUCKET, keyVars, exceptGate>>

\* the response has gone out; the connection takes the next request
Respond ==
    /\ http.pc = "done"
    /\ http' = HttpIdle
    /\ UNCHANGED <<version_policy, DISTRIBUTION_BUCKET, keyVars, exceptGate>>

Paths ==
    {<<"health">>, <<"ready">>, <<"health", "live">>, <<"v1", "models">>,
     <<"v1", "chat", "completions">>, <<"v1", "api-keys">>,
     <<"v1", "update", "config">>}
ClientVersions ==
    {<<>>, <<"d", "e", "v">>, <<"1", ".", "9", ".", "0">>,
     <<"v", "2", ".", "0", ".", "1", "-", "r", "c">>, <<"2", ".", "0">>}
Manifests == {<<>>, <<"2", ".", "0", ".", "0">>, <<"l", "a", "t", "e", "s", "t">>}
RequestIds == {Absent, "req-1"}

(***************************************************************************)
(* chat_completions: the alias lookup, the choice of backend, the unary    *)
(* Converse call, and the proxy to the upstream OpenAI-compatible          *)
(* endpoint.  A model id is the sequence of its dot-separated segments; a  *)
(* chunk of the upstream body is the sequence of its lines.                *)
(***************************************************************************)
TOKEN_TTL == 3600

DEFAULT_MODEL_MAP ==
    [k \in {<<"claude-opus">>, <<"kimi-k25">>} |->
        IF k = <<"claude-opus">>
        THEN <<"us", "anthropic", "claude-opus-4-6-v1">>
        ELSE <<"moonshotai", "kimi-k2", "5">>]

\* a BEDROCK_MODEL_MAP whose value for one alias is itself an alias
OverrideModelMap ==
    [k \in {<<"fast">>, <<"claude-opus">>} |->
        IF k = <<"fast">> THEN <<"claude-opus">> ELSE <<"anthropic", "claude-3">>]

\* a variant that looks the result up again
MapModelTwice(requested) ==
    LET once == IF requested \in DOMAIN model_map THEN model_map[requested]
                ELSE requested
    IN  IF once \in DOMAIN model_map THEN model_map[once] ELSE once

\* lines 1460-1475: body["model"] after the lookup
MapModel(requested) ==
    IF requested \in DOMAIN model_map THEN model_map[requested] ELSE requested

\* model_id.startswith(prefix + ".")
StartsWithDotted(model_id, prefix) ==
    Len(model_id) > Len(prefix) /\ SubSeq(model_id, 1, Len(prefix)) = prefix

is_anthropic_model(model_id) ==
    \/ StartsWithDotted(model_id, <<"anthropic">>)
    \/ StartsWithDotted(model_id, <<"us", "anthropic">>)

\* a response of the handler: raised says that it raised instead
ChatResp(status, message) == [status |-> status, message |-> message, raised |-> FALSE]
ChatRaised(exception) == [status |-> 500, message |-> exception, raised |-> TRUE]
NoChatResp == ChatResp(0, "")

NoToken == [value |-> "", expires |-> 0]

ChatAtRest ==
    [pc |-> "idle", requested |-> <<>>, model |-> <<>>, stream |-> FALSE,
     route |-> "", token_calls |-> 0, posts |-> 0, converse_calls |-> 0,
     upstream_status |-> 0, prepared |-> FALSE, received |-> <<>>,
     written |-> <<>>, last_data_line |-> "", eof |-> FALSE, failed |-> FALSE,
     response |-> [none |-> TRUE], result |-> [none |-> TRUE],
     resp |-> NoChatResp]

ChatDone(rec, resp) == [rec EXCEPT !.pc = "done", !.resp = resp]

\* lines 1451-1501: the body is parsed, the alias looked up and the backend
\* chosen; the Converse handlers are entered, or the proxy goes on
ChatReceive(well_formed, requested, is_stream) ==
    /\ chat.pc = "idle"
    /\ chat' =
         IF ~well_formed
         THEN ChatDone(chat, ChatResp(400, "Invalid JSON in request body"))
         ELSE LET mapped_model == MapModel(requested) IN
              [chat EXCEPT
                  !.requested = requested, !.model = mapped_model,
                  !.stream = is_stream,
                  !.route = IF is_anthropic_model(mapped_model) THEN "converse"
                            ELSE "mantle",
                  !.pc = IF is_anthropic_model(mapped_model)
                         THEN IF is_stream THEN "converse_stream"
                              ELSE "converse_unary"
                         ELSE "token"]
    /\ UNCHANGED <<_token, model_map, sseVars, exceptChat>>

\* handle_anthropic_non_streaming, lines 579-593: client.converse submitted
ConverseCall ==
    /\ chat.pc = "converse_unary"
    /\ chat' = [chat EXCEPT !.pc = "converse_wait", !.converse_calls = @ + 1]
    /\ UNCHANGED <<_token, model_map, sseVars, exceptChat>>

\* a reasoning block of a Converse response, with its text or redacted
Reasoning(t) == [reasoningContent |-> [reasoningText |-> [text |-> t]]]
Redacted == [reasoningContent |-> [redactedContent |-> "0x00"]]
ConverseResponse(content, stopReason, usage) ==
    [content |-> content, stopReason |-> stopReason, usage |-> usage]
NoResult == [none |-> TRUE]

\* lines 515-523: the blocks of a sequence the loop takes under the key, in
\* order; "text" is tested first, then "reasoningContent", then "toolUse"
BlocksOf(content, key) ==
    LET Taken(b) ==
            IF "text" \in DOMAIN b THEN "text"
            ELSE IF "reasoningContent" \in DOMAIN b THEN "reasoningContent"
            ELSE IF "toolUse" \in DOMAIN b THEN "toolUse"
            ELSE "none"
        Has(b) == Taken(b) = key
    IN  SelectSeq(content, Has)

\* a variant that lists the tool calls last to first
ToolCallsReversed(content) ==
    LET tool_uses == BlocksOf(content, "toolUse")
        n == Len(tool_uses)
    IN  [i \in 1 .. n |->
            [index |-> i - 1, id |-> tool_uses[n + 1 - i].toolUse.toolUseId,
             type |-> "function", name |-> tool_uses[n + 1 - i].toolUse.name,
             arguments |-> JsonDumps(tool_uses[n + 1 - i].toolUse.input)]]

\* lines 521-535: one tool call for each toolUse block, numbered from 0
ToolCallsOf(content) ==
    LET tool_uses == BlocksOf(content, "toolUse") IN
    [i \in 1 .. Len(tool_uses) |->
        [index |-> i - 1, id |-> tool_uses[i].toolUse.toolUseId,
         type |-> "function", name |-> tool_uses[i].toolUse.name,
         arguments |-> JsonDumps(tool_uses[i].toolUse.input)]]

\* a variant that leaves the mapped reason as it is
FinishReasonAsMapped(mapped, tool_calls) == mapped

\* lines 537 and 545-549
FinishReason(mapped, tool_calls) ==
    IF tool_calls # <<>> /\ mapped = "stop" THEN "tool_calls" ELSE mapped

\* translate_converse_to_openai, lines 503-564: the choice it returns
translate_converse_to_openai(response) ==
    LET stop_reason == IF response.stopReason = Absent THEN "end_turn"
                       ELSE response.stopReason
        text_parts == BlocksOf(response.content, "text")
        reasoning_parts ==
            SelectSeq(BlocksOf(response.content, "reasoningContent"),
                      LAMBDA b : "reasoningText" \in DOMAIN b.reasoningContent)
        tool_calls == ToolCallsOf(response.content)
    IN  [role |-> "assistant",
         content |-> [i \in 1 .. Len(text_parts) |-> text_parts[i].text],
         reasoning_content |->
             [i \in 1 .. Len(reasoning_parts) |->
                 reasoning_parts[i].reasoningContent.reasoningText.text],
         tool_calls |-> tool_calls,
         finish_reason |-> FinishReason(map_stop_reason(stop_reason), tool_calls),
         usage |-> build_usage(response.usage)]

\* the toolUse blocks of each translated message taken back to tool calls,
\* as translate_converse_to_openai takes those of a response
TranslateBack ==
    /\ params # NoParams /\ back = NoBack
    /\ back' = [i \in DOMAIN params.messages |->
                   translate_converse_to_openai(
                       ConverseResponse(params.messages[i].content, Absent,
                                        Dict({}))).tool_calls]
    /\ UNCHANGED <<body, params, exceptTranslate>>

\* lines 594-610: the call returned and its response is translated
ConverseReturns(response) ==
    /\ chat.pc = "converse_wait"
    /\ chat' = ChatDone([chat EXCEPT
                            !.response = response,
                            !.result = translate_converse_to_openai(response)],
                        ChatResp(200, "chat.completion"))
    /\ UNCHANGED <<_token, model_map, sseVars, exceptChat>>

\* a variant that hands str(e) to the client
LeakyErrorBody(e) == ChatResp(502, e)

\* lines 616-627
UnaryErrorBody(e) ==
    ChatResp(502, "An internal error occurred while processing the request.")

\* lines 611-627: the call raised
ConverseRaises ==
    /\ chat.pc = "converse_wait"
    /\ \E e \in Exceptions :
         /\ upstream_exc' = e
         /\ chat' = ChatDone([chat EXCEPT !.failed = TRUE], UnaryErrorBody(e))
    /\ UNCHANGED <<stream_pc, delivered, frames, tool_idx, client_open, eof_sent>>
    /\ UNCHANGED <<_token, model_map, exceptChat>>

\* line 1499: handle_anthropic_streaming is entered
ConverseStreamEnter ==
    /\ chat.pc = "converse_stream"
    /\ StreamStart

\* line 1499: handle_anthropic_streaming returned its response
ConverseStreamReturn ==
    /\ chat.pc = "converse_stream"
    /\ stream_pc = "returned"
    /\ chat' = ChatDone([chat EXCEPT !.prepared = TRUE, !.eof = eof_sent],
                        ChatResp(200, "text/event-stream"))
    /\ UNCHANGED <<_token, model_map, sseVars, exceptChat>>

\* a variant that serves the cached token at its expiry too
TokenFreshAtExpiry(tok, t) == tok.value # "" /\ t <= tok.expires

\* line 234: the cached token is served
TokenFresh(tok, t) == tok.value # "" /\ t < tok.expires

\* a variant that empties the cache when the provider raises
TokenClearedOnFailure(tok, t, provided) ==
    IF TokenFresh(tok, t) THEN tok
    ELSE IF provided THEN [value |-> "tok", expires |-> t + TOKEN_TTL]
    ELSE NoToken

\* lines 232-240: _token after a call of get_token at time t; provide_token
\* returns "tok" or raises
TokenAfter(tok, t, provided) ==
    IF TokenFresh(tok, t) THEN tok
    ELSE IF provided THEN [value |-> "tok", expires |-> t + TOKEN_TTL]
    ELSE tok

\* get_token, lines 232-240, and lines 1505-1513
MantleToken(provided) ==
    /\ chat.pc = "token"
    /\ _token' = TokenAfter(_token, now, provided)
    /\ chat' = IF TokenFresh(_token, now) \/ provided
               THEN [chat EXCEPT !.pc = "post", !.token_calls = @ + 1]
               ELSE ChatDone([chat EXCEPT !.token_calls = @ + 1],
                             ChatResp(500, "Authentication failed"))
    /\ UNCHANGED <<model_map, sseVars, exceptChat>>

\* lines 1611-1618: except aiohttp.ClientError
BadGateway == ChatResp(502, "Upstream service unavailable")

\* session.post, line 1537: the response head arrives, or ClientError
MantlePost(connected, status) ==
    /\ chat.pc = "post"
    /\ chat' =
         IF ~connected
         THEN ChatDone([chat EXCEPT !.posts = @ + 1, !.failed = TRUE], BadGateway)
         ELSE [chat EXCEPT !.posts = @ + 1, !.upstream_status = status,
                           !.pc = IF chat.stream THEN "prepare" ELSE "read"]
    /\ UNCHANGED <<_token, model_map, sseVars, exceptChat>>

\* lines 1538-1568: the whole upstream body is read and handed on
MantleRead(complete, data) ==
    /\ chat.pc = "read"
    /\ chat' =
         IF ~complete
         THEN ChatDone([chat EXCEPT !.failed = TRUE], BadGateway)
         ELSE ChatDone([chat EXCEPT !.received = <<data>>, !.written = <<data>>],
                       ChatResp(chat.upstream_status, "upstream body"))
    /\ UNCHANGED <<_token, model_map, sseVars, exceptChat>>

\* lines 1570-1579: the status line and the headers go out
MantlePrepare ==
    /\ chat.pc = "prepare"
    /\ chat' = [chat EXCEPT !.pc = "relay", !.prepared = TRUE]
    /\ UNCHANGED <<_token, model_map, sseVars, exceptChat>>

\* a line of a chunk: a "data: " line with the text after the prefix, or
\* another line; bad says that it holds bytes that are not UTF-8
DataLine(text) == [data |-> TRUE, text |-> text, bad |-> FALSE]
OtherLine(text, bad) == [data |-> FALSE, text |-> text, bad |-> bad]

\* chunk.decode("utf-8", errors="replace")
DecodeLine(line) ==
    IF line.bad THEN [line EXCEPT !.text = "U+FFFD", !.bad = FALSE] ELSE line
Decode(chunk) == [i \in DOMAIN chunk |-> DecodeLine(chunk[i])]

\* lines 1585-1588: the last "data: " line that is not "data: [DONE]"
RECURSIVE Sniff(_, _)
Sniff(last_data_line, lines) ==
    IF lines = <<>> THEN last_data_line
    ELSE Sniff(IF Head(lines).data /\ Head(lines).text # "[DONE]"
               THEN Head(lines).text ELSE last_data_line,
               Tail(lines))

\* a variant that writes the decoded text back
RelayDecoded(written, chunk) == Append(written, Decode(chunk))

\* line 1589: await response.write(chunk)
RelayWrite(written, chunk) == Append(written, chunk)

\* one turn of the loop at 1582: a chunk arrives and is written; a write to
\* a closed connection raises, and the handler does not catch that
MantleChunk(chunk) ==
    /\ chat.pc = "relay"
    /\ Len(chat.received) < MaxChunks
    /\ LET rec == [chat EXCEPT
                      !.received = Append(@, chunk),
                      !.last_data_line = Sniff(@, Decode(chunk))]
       IN  chat' =
             IF client_open
             THEN [rec EXCEPT !.written = RelayWrite(@, chunk)]
             ELSE ChatDone(rec, ChatRaised("ConnectionResetError"))
    /\ UNCHANGED <<_token, model_map, sseVars, exceptChat>>

\* lines 1591-1609: the upstream body ends
MantleEnd ==
    /\ chat.pc = "relay"
    /\ chat' =
         IF client_open
         THEN ChatDone([chat EXCEPT !.eof = TRUE],
                       ChatResp(chat.upstream_status, "text/event-stream"))
         ELSE ChatDone(chat, ChatRaised("ConnectionResetError"))
    /\ UNCHANGED <<_token, model_map, sseVars, exceptChat>>

\* the upstream body breaks off: iter_any raises ClientPayloadError, and
\* lines 1611-1618 return a new response after the first one was prepared
MantleBreaks ==
    /\ chat.pc = "relay"
    /\ chat' = ChatDone([chat EXCEPT !.failed = TRUE], BadGateway)
    /\ UNCHANGED <<_token, model_map, sseVars, exceptChat>>

\* the client closes its connection while the proxy relays
MantleClientDisconnect ==
    /\ chat.pc = "relay"
    /\ client_open
    /\ client_open' = FALSE
    /\ UNCHANGED <<stream_pc, delivered, frames, tool_idx, eof_sent, upstream_exc>>
    /\ UNCHANGED <<chatVars, exceptChat>>

ModelIds ==
    {<<>>, <<"claude-opus">>, <<"kimi-k25">>, <<"fast">>,
     <<"anthropic", "claude-3">>, <<"us", "anthropic", "claude-sonnet-4-6">>,
     <<"eu", "anthropic", "claude-3">>, <<"anthropic">>, <<"us", "anthropic">>}
Chunks ==
    {<<DataLine("{delta}"), OtherLine("", FALSE)>>,
     <<DataLine("{usage}"), OtherLine("", FALSE), DataLine("[DONE]")>>,
     <<OtherLine("0xFF", TRUE)>>}
OutBlocks ==
    {Text("hello"), Reasoning("hm"), Redacted,
     ToolUse("tooluse_1", "get_weather", JsonObject({}))}
UnaryStopReasons ==
    {Absent, "end_turn", "stop_sequence", "tool_use", "max_tokens",
     "content_filtered", "guardrail_intervened"}
ConverseResponses ==
    {ConverseResponse(content, stopReason, Dict({})) :
        content \in {<<>>} \cup {<<a>> : a \in OutBlocks}
                           \cup {<<a, b>> : a \in OutBlocks, b \in OutBlocks},
        stopReason \in UnaryStopReasons}
    \cup {ConverseResponse(<<Text("hello")>>, "end_turn", u) : u \in Usages}
Tokens == {NoToken, [value |-> "tok", expires |-> TOKEN_TTL], [value |-> "tok", expires |-> 0]}

(***************************************************************************)
(* get_token and the handlers that call it.  A handler runs on the event   *)
(* loop of its process, and get_token has no await in it: from the read of *)
(* _token to the return, the coroutine that called it keeps the loop, the  *)
(* call of provide_token included.  The clock goes on meanwhile.           *)
(***************************************************************************)
Coroutines == {1, 2}

\* what provide_token gives: a token, an empty token, or an exception
ProviderRaises == "(raises)"
ProviderResults == {"tok", "", ProviderRaises}

\* a handler that ended without a return statement
ReturnedNone == ChatResp(0, "None")

GetterAtRest ==
    [pc |-> "idle", handler |-> "", now |-> 0, tok |-> "", provider_calls |-> 0,
     returned |-> "", raised |-> FALSE, resp |-> NoChatResp]

\* ready, lines 1350-1371, and chat_completions, lines 1505-1513, once
\* get_token has returned token
TokenReturned(handler, token) ==
    IF handler = "ready"
    THEN IF token # "" THEN ChatResp(200, "valid") ELSE ReturnedNone
    ELSE ChatResp(0, "session.post")

\* the same two, once get_token has raised
TokenRaised(handler) ==
    IF handler = "ready" THEN ChatResp(503, "Token generation failed")
    ELSE ChatResp(500, "Authentication failed")

\* a variant in which a coroutine inside get_token lets the others run
HoldsLoopNever(pc) == FALSE

\* lines 233-240 have no await: a coroutine at one of these keeps the loop
HoldsLoop(pc) == pc \in {"provide", "store_value", "store_expires"}

LoopFree(c) == \A other \in Coroutines \ {c} : ~HoldsLoop(getters[other].pc)

\* lines 233-235: a handler calls get_token, which serves the cached token
\* or goes on to call the provider
GetTokenEnter(c, handler) ==
    /\ getters[c].pc \in {"idle", "done"}
    /\ LoopFree(c)
    /\ IF TokenFresh(_token, now)
       THEN /\ getters' = [getters EXCEPT ![c] =
                   [GetterAtRest EXCEPT
                      !.pc = "done", !.handler = handler, !.now = now,
                      !.returned = _token.value,
                      !.resp = TokenReturned(handler, _token.value)]]
            /\ UNCHANGED cycle
       ELSE /\ getters' = [getters EXCEPT ![c] =
                   [GetterAtRest EXCEPT
                      !.pc = "provide", !.handler = handler, !.now = now,
                      !.provider_calls = 1]]
            /\ cycle' = IF cycle = "none" \/ cycle = "failed"
                        THEN "in flight" ELSE "overlapping"
    /\ UNCHANGED <<_token, exceptToken>>

\* line 236: provide_token returns, or raises through get_token to the handler
ProviderReturns(c, provided) ==
    /\ getters[c].pc = "provide"
    /\ LoopFree(c)
    /\ IF provided = ProviderRaises
       THEN /\ getters' = [getters EXCEPT
                             ![c].pc = "done", ![c].raised = TRUE,
                             ![c].resp = TokenRaised(getters[c].handler)]
            /\ cycle' = "failed"
       ELSE /\ getters' = [getters EXCEPT ![c].pc = "store_value", ![c].tok = provided]
            /\ UNCHANGED cycle
    /\ UNCHANGED <<_token, exceptToken>>

\* line 237
StoreValue(c) ==
    /\ getters[c].pc = "store_value"
    /\ LoopFree(c)
    /\ _token' = [_token EXCEPT !.value = getters[c].tok]
    /\ getters' = [getters EXCEPT ![c].pc = "store_expires"]
    /\ UNCHANGED <<cycle, exceptToken>>

\* lines 238-240: the expiry is stored and the token goes back to the handler
StoreExpires(c) ==
    /\ getters[c].pc = "store_expires"
    /\ LoopFree(c)
    /\ _token' = [_token EXCEPT !.expires = getters[c].now + TOKEN_TTL]
    /\ getters' = [getters EXCEPT
                     ![c].pc = "done", ![c].returned = getters[c].tok,
                     ![c].resp = TokenReturned(getters[c].handler, getters[c].tok)]
    /\ cycle' = IF getters[c].tok # "" THEN "none" ELSE "failed"
    /\ UNCHANGED exceptToken

Handlers == {"ready", "chat"}

(***************************************************************************)
(* The lazily built handles.  get_bedrock_client is called by the Converse *)
(* handlers on the event loop; get_dynamodb_table is called by the store   *)
(* functions, each of which runs on a worker of _executor.  A handle is    *)
(* named by the ordinal of the construction that made it.                  *)
(***************************************************************************)
None == [none |-> TRUE]
Handle(k) == [built |-> k]

Workers == {1, 2, 3}
StoreFunctions == {"_lookup_api_key", "_update_last_used", "_list_user_keys"}
ConverseHandlers == {"handle_anthropic_non_streaming", "handle_anthropic_streaming"}

WorkerAtRest == [pc |-> "idle", fn |-> "", local |-> None, table |-> None]

exceptHandles == <<keyVars, translateVars, sseVars, gateVars, chatVars, tokenVars>>

\* get_bedrock_client, lines 256-271, called at 591 and 652 with no await
\* inside: the test, the construction and the assignment are one step of
\* the event loop
get_bedrock_client(handler) ==
    /\ IF _bedrock_client = None
       THEN /\ _bedrock_client' = Handle(built.client + 1)
            /\ built' = [built EXCEPT !.client = @ + 1]
       ELSE UNCHANGED <<_bedrock_client, built>>
    /\ used' = [used EXCEPT !.client = @ \cup {_bedrock_client'}]
    /\ UNCHANGED <<_dynamodb_table, workers, exceptHandles>>

\* a store function starts on worker w; get_dynamodb_table, line 880
TableCheck(w, fn) ==
    /\ workers[w].pc = "idle"
    /\ workers' = [workers EXCEPT ![w] =
                      [WorkerAtRest EXCEPT
                          !.pc = IF _dynamodb_table = None THEN "construct"
                                 ELSE "return",
                          !.fn = fn]]
    /\ UNCHANGED <<_bedrock_client, _dynamodb_table, built, used, exceptHandles>>

\* lines 883-885: boto3.resource(...).Table(...)
TableConstruct(w) ==
    /\ workers[w].pc = "construct"
    /\ built' = [built EXCEPT !.table = @ + 1]
    /\ workers' = [workers EXCEPT ![w].pc = "store",
                                  ![w].local = Handle(built.table + 1)]
    /\ UNCHANGED <<_bedrock_client, _dynamodb_table, used, exceptHandles>>

\* line 885: the assignment to the global
TableStore(w) ==
    /\ workers[w].pc = "store"
    /\ _dynamodb_table' = workers[w].local
    /\ workers' = [workers EXCEPT ![w].pc = "return"]
    /\ UNCHANGED <<_bedrock_client, built, used, exceptHandles>>

\* line 890: return _dynamodb_table
TableReturn(w) ==
    /\ workers[w].pc = "return"
    /\ workers' = [workers EXCEPT ![w].pc = "call", ![w].table = _dynamodb_table]
    /\ UNCHANGED <<_bedrock_client, _dynamodb_table, built, used, exceptHandles>>

\* the store function makes its call on the table it was given, and ends
TableCall(w) ==
    /\ workers[w].pc = "call"
    /\ used' = [used EXCEPT !.table = @ \cup {workers[w].table}]
    /\ workers' = [workers EXCEPT ![w] = WorkerAtRest]
    /\ UNCHANGED <<_bedrock_client, _dynamodb_table, built, exceptHandles>>

(***************************************************************************)
(* Each part of the router at rest.                                        *)
(***************************************************************************)
KeysIdle ==
    /\ store = EmptyStore
    /\ cache = EmptyCache
    /\ reqs = [r \in ReqIds |-> Idle]
    /\ touches = [p \in Procs |-> {}]
    /\ now = 0
    /\ revokedOK = {}
    /\ pool = {}
    /\ last = Idle

TranslateIdle == body = NoBody /\ params = NoParams /\ back = NoBack

SseIdle ==
    /\ stream_pc = "idle"
    /\ delivered = <<>>
    /\ frames = <<>>
    /\ tool_idx = 0 - 1
    /\ client_open = TRUE
    /\ eof_sent = FALSE
    /\ upstream_exc = ""

GateIdle ==
    /\ http = HttpIdle
    /\ version_policy = [minimum |-> NoVersion, fetched_at |-> 0]
    /\ DISTRIBUTION_BUCKET = TRUE

ChatIdle ==
    /\ chat = ChatAtRest
    /\ _token = NoToken
    /\ model_map = DEFAULT_MODEL_MAP

TokenIdle == getters = [c \in Coroutines |-> GetterAtRest] /\ cycle = "none"

HandlesIdle ==
    /\ _bedrock_client = None
    /\ _dynamodb_table = None
    /\ workers = [w \in Workers |-> WorkerAtRest]
    /\ built = [client |-> 0, table |-> 0]
    /\ used = [client |-> {}, table |-> {}]

(***************************************************************************)
(* SpecTranslate: one call of translate_openai_to_converse on any body.    *)
(***************************************************************************)
InitTranslate ==
    KeysIdle /\ TranslateIdle /\ SseIdle /\ TokenIdle /\ GateIdle /\ ChatIdle /\ HandlesIdle

NextTranslate ==
    \/ \E b \in Bodies, enable_cache \in BOOLEAN : Translate(b, enable_cache)
    \/ TranslateBack

SpecTranslate == InitTranslate /\ [][NextTranslate]_vars

(***************************************************************************)
(* SpecStream: one Converse streaming response, from the upstream call to  *)
(* the handler's return, the client free to disconnect at any moment.      *)
(***************************************************************************)
InitStream ==
    KeysIdle /\ TranslateIdle /\ SseIdle /\ TokenIdle /\ GateIdle /\ ChatIdle /\ HandlesIdle

NextStream ==
    \/ StreamStart
    \/ CallRaises
    \/ CallNoStream
    \/ CallOpens
    \/ \E event \in Events : PullEvent(event)
    \/ PullEnd
    \/ PullRaises
    \/ WriteDone
    \/ WriteEof
    \/ ErrChunk
    \/ ErrDone
    \/ ErrEof
    \/ ClientDisconnect

SpecStream == InitStream /\ [][NextStream]_vars

(***************************************************************************)
(* SpecKeys: one router process, the clock standing still.  User B holds a *)
(* key; the next key generated shares its first ten characters.            *)
(***************************************************************************)
FarFuture == DEFAULT_EXPIRY_DAYS * SECONDS_PER_DAY

InitKeys ==
    /\ store = [EmptyStore EXCEPT ![hash_api_key(Key("1", "y"))] =
                    Seeded(Key("1", "y"), "B", FarFuture)]
    /\ cache = EmptyCache
    /\ reqs = [r \in ReqIds |-> Idle]
    /\ touches = [p \in Procs |-> {}]
    /\ now = 0
    /\ revokedOK = {}
    /\ pool = {Key("1", "x")}
    /\ last = Idle
    /\ TranslateIdle
    /\ SseIdle
    /\ TokenIdle
    /\ HandlesIdle
    /\ GateIdle
    /\ ChatIdle

NextKeys ==
    \/ AuthSteps({1}, {1}, {Key("1", "x"), Key("1", "y"), NoKey, BadKey})
    \/ TouchSteps({1})
    \/ RevokeSteps({1}, {2}, AuthInputs,
                   {Take(Key("1", "x"), KEY_PREFIX_LEN), Key("1", "x")})
    \/ CreateListSteps({1}, {2}, AuthInputs)

SpecKeys == InitKeys /\ [][NextKeys]_vars

(***************************************************************************)
(* SpecStale: two router processes on one store, each with its own cache,  *)
(* and the clock running.  User A holds a key that expires at KeyExpiry;   *)
(* Key("1","x") was never issued.                                          *)
(***************************************************************************)
KeyExpiry == 4 * Tick

InitStale ==
    /\ store = [EmptyStore EXCEPT ![hash_api_key(Key("2", "x"))] =
                    Seeded(Key("2", "x"), "A", KeyExpiry)]
    /\ cache = EmptyCache
    /\ reqs = [r \in ReqIds |-> Idle]
    /\ touches = [p \in Procs |-> {}]
    /\ now = 0
    /\ revokedOK = {}
    /\ pool = {}
    /\ last = Idle
    /\ TranslateIdle
    /\ SseIdle
    /\ TokenIdle
    /\ HandlesIdle
    /\ GateIdle
    /\ ChatIdle

NextStale ==
    \/ AuthSteps(Procs, {1}, {Key("2", "x"), Key("1", "x"), NoKey, BadKey})
    \/ RevokeSteps({1}, {2}, {Bearer("A")}, {Take(Key("2", "x"), KEY_PREFIX_LEN)})
    \/ Advance

SpecStale == InitStale /\ [][NextStale]_vars

(***************************************************************************)
(* SpecQuota: user A at the limit of active keys.  A holds nine active     *)
(* keys and a tenth that is active or revoked; two lifecycle requests may  *)
(* be in flight at once.                                                   *)
(***************************************************************************)
QuotaStore(tenth) ==
    [h \in Hashes |->
        IF \E i \in 1 .. MAX_KEYS_PER_USER : h = hash_api_key(QuotaKey(i))
        THEN LET i == CHOOSE j \in 1 .. MAX_KEYS_PER_USER : h = hash_api_key(QuotaKey(j))
             IN  IF i = MAX_KEYS_PER_USER
                 THEN [Seeded(QuotaKey(i), "A", FarFuture) EXCEPT
                          !.status = tenth,
                          !.revoked_at = IF tenth = "revoked" THEN 0 ELSE NoTime]
                 ELSE Seeded(QuotaKey(i), "A", FarFuture)
        ELSE NoItem]

InitQuota ==
    /\ \E tenth \in {"active", "revoked"} : store = QuotaStore(tenth)
    /\ cache = EmptyCache
    /\ reqs = [r \in ReqIds |-> Idle]
    /\ touches = [p \in Procs |-> {}]
    /\ now = 0
    /\ revokedOK = {}
    /\ pool = {QuotaKey(MAX_KEYS_PER_USER + 1), QuotaKey(MAX_KEYS_PER_USER + 2)}
    /\ last = Idle
    /\ TranslateIdle
    /\ SseIdle
    /\ TokenIdle
    /\ HandlesIdle
    /\ GateIdle
    /\ ChatIdle

NextQuota ==
    \/ CreateListSteps({1}, ReqIds, {Bearer("A")})
    \/ RevokeSteps({1}, ReqIds, {Bearer("A")},
                   {Take(QuotaKey(1), KEY_PREFIX_LEN),
                    Take(QuotaKey(MAX_KEYS_PER_USER), KEY_PREFIX_LEN)})

SpecQuota == InitQuota /\ [][NextQuota]_vars

(***************************************************************************)
(* SpecPipeline: requests through the three middlewares, one at a time, on *)
(* one router process whose store holds a key of user A; the clock runs.   *)
(***************************************************************************)
InitPipeline ==
    /\ store = [EmptyStore EXCEPT ![hash_api_key(Key("2", "x"))] =
                    Seeded(Key("2", "x"), "A", FarFuture)]
    /\ cache = EmptyCache
    /\ reqs = [r \in ReqIds |-> Idle]
    /\ touches = [p \in Procs |-> {}]
    /\ now = 0
    /\ revokedOK = {}
    /\ pool = {}
    /\ last = Idle
    /\ TranslateIdle
    /\ SseIdle
    /\ TokenIdle
    /\ HandlesIdle
    /\ http = HttpIdle
    /\ version_policy = [minimum |-> NoVersion, fetched_at |-> 0]
    /\ DISTRIBUTION_BUCKET \in BOOLEAN
    /\ ChatIdle

NextPipeline ==
    \/ \E path \in Paths, rid \in RequestIds, client_version \in ClientVersions :
         \/ Receive(path, rid, client_version, NoAuth, NoKey)
         \/ Receive(path, rid, client_version, NoAuth, Key("2", "x"))
         \/ Receive(path, rid, client_version, Bearer("A"), NoKey)
         \/ Receive(path, rid, client_version, BearerGarbled, NoKey)
    \/ GateStart
    \/ \E fetched \in BOOLEAN, manifest \in Manifests : GateFetch(fetched, manifest)
    \/ GateResume
    \/ AuthBypass
    \/ AuthEnter
    \/ AuthLookup(1)
    \/ AuthResume(1)
    \/ AuthReturn
    \/ LogStart
    \/ \E status \in {200, 404} : HandlerReturns(status)
    \/ HandlerRaises
    \/ Respond
    \/ Advance

SpecPipeline == InitPipeline /\ [][NextPipeline]_vars

(***************************************************************************)
(* SpecChat: one request to POST /v1/chat/completions, under the default   *)
(* alias map or an override, with the upstream token absent, cached or     *)
(* expired; the Converse streaming handler runs as in SpecStream.          *)
(***************************************************************************)
InitChat ==
    /\ KeysIdle
    /\ TranslateIdle
    /\ SseIdle
    /\ TokenIdle
    /\ HandlesIdle
    /\ GateIdle
    /\ chat = ChatAtRest
    /\ _token \in Tokens
    /\ model_map \in {DEFAULT_MODEL_MAP, OverrideModelMap}

NextChat ==
    \/ \E well_formed \in BOOLEAN, requested \in ModelIds, is_stream \in BOOLEAN :
         ChatReceive(well_formed, requested, is_stream)
    \/ ConverseCall
    \/ \E response \in ConverseResponses : ConverseReturns(response)
    \/ ConverseRaises
    \/ ConverseStreamEnter
    \/ CallRaises
    \/ CallNoStream
    \/ CallOpens
    \/ \E event \in Events : PullEvent(event)
    \/ PullEnd
    \/ PullRaises
    \/ WriteDone
    \/ WriteEof
    \/ ErrChunk
    \/ ErrDone
    \/ ErrEof
    \/ ClientDisconnect
    \/ ConverseStreamReturn
    \/ \E provided \in BOOLEAN : MantleToken(provided)
    \/ \E connected \in BOOLEAN, status \in {200, 429} : MantlePost(connected, status)
    \/ \E complete \in BOOLEAN, data \in Chunks : MantleRead(complete, data)
    \/ MantlePrepare
    \/ \E chunk \in Chunks : MantleChunk(chunk)
    \/ MantleEnd
    \/ MantleBreaks
    \/ MantleClientDisconnect

SpecChat == InitChat /\ [][NextChat]_vars

(***************************************************************************)
(* SpecTouch: one router process answering requests made with one active   *)
(* key, its executor running the last_used_at updates, and the clock       *)
(* running.                                                                *)
(***************************************************************************)
InitTouch ==
    /\ store = [EmptyStore EXCEPT ![hash_api_key(Key("1", "y"))] =
                    Seeded(Key("1", "y"), "B", FarFuture)]
    /\ cache = EmptyCache
    /\ reqs = [r \in ReqIds |-> Idle]
    /\ touches = [p \in Procs |-> {}]
    /\ now = 0
    /\ revokedOK = {}
    /\ pool = {}
    /\ last = Idle
    /\ TranslateIdle
    /\ SseIdle
    /\ TokenIdle
    /\ HandlesIdle
    /\ GateIdle
    /\ ChatIdle

NextTouch ==
    \/ AuthSteps({1}, {1}, {Key("1", "y")})
    \/ TouchStampSteps({1})
    \/ TouchSteps({1})
    \/ Advance

SpecTouch == InitTouch /\ [][NextTouch]_vars

(***************************************************************************)
(* SpecToken: the handlers of one process calling get_token, one request   *)
(* after another on each of two coroutines, while the clock goes on.  The  *)
(* cache starts empty, or with a token fetched before that has two ticks   *)
(* left, or none.                                                          *)
(***************************************************************************)
InitToken ==
    /\ KeysIdle
    /\ TranslateIdle
    /\ SseIdle
    /\ TokenIdle
    /\ HandlesIdle
    /\ GateIdle
    /\ chat = ChatAtRest
    /\ model_map = DEFAULT_MODEL_MAP
    /\ _token \in {NoToken, [value |-> "tok", expires |-> 2 * Tick],
                    [value |-> "tok", expires |-> 0]}

NextToken ==
    \/ \E c \in Coroutines, handler \in Handlers : GetTokenEnter(c, handler)
    \/ \E c \in Coroutines, provided \in ProviderResults : ProviderReturns(c, provided)
    \/ \E c \in Coroutines : StoreValue(c)
    \/ \E c \in Coroutines : StoreExpires(c)
    \/ Advance

SpecToken == InitToken /\ [][NextToken]_vars

(***************************************************************************)
(* SpecHandles: a fresh process; Converse handlers ask for the SDK client  *)
(* on the event loop while store functions run on three pool workers.      *)
(***************************************************************************)
InitHandles ==
    KeysIdle /\ TranslateIdle /\ SseIdle /\ TokenIdle /\ GateIdle /\ ChatIdle /\ HandlesIdle

NextHandles ==
    \/ \E handler \in ConverseHandlers : get_bedrock_client(handler)
    \/ \E w \in Workers, fn \in StoreFunctions : TableCheck(w, fn)
    \/ \E w \in Workers : TableConstruct(w)
    \/ \E w \in Workers : TableStore(w)
    \/ \E w \in Workers : TableReturn(w)
    \/ \E w \in Workers : TableCall(w)

SpecHandles == InitHandles /\ [][NextHandles]_vars

(***************************************************************************)
(* The claims.                                                             *)
(***************************************************************************)
AuthenticatedByKey ==
    last.kind = "auth" /\ last.resp.status = 200 /\ last.via = "api_key"

\* C1: within one process, once a revoke of a key has answered 200, no
\* request presenting that key is authenticated: every later one is rejected.
C1_RevocationImmediate ==
    AuthenticatedByKey => <<last.proc, hash_api_key(last.key)>> \notin revokedOK

C1_RevokedThenAuthenticated ==
    AuthenticatedByKey /\ <<last.proc, hash_api_key(last.key)>> \in revokedOK

KeyRequest == last.kind = "auth" /\ last.auth.scheme # "Bearer"
MalformedKey == last.key = NoKey \/ ~StartsWith(last.key, API_KEY_PREFIX)
LookedUp == "get" \in last.calls
Answered(status, code) == last.resp.status = status /\ last.resp.code = code

\* C6: a request with no bearer token and no live cache entry is answered, in
\* this order of precedence: 401 missing_credentials for an absent or
\* malformed key, 500 when the lookup fails, 401 invalid_api_key when there is
\* no record, 401 revoked_api_key when the record is not active, 401
\* expired_api_key when it expired before now; only otherwise does it reach
\* the handler, with the record's identity and a cache entry written.
C6_RejectionOrder ==
    KeyRequest =>
        /\ MalformedKey => Answered(401, "missing_credentials")
        /\ (~MalformedKey /\ LookedUp) =>
             LET item == last.item
                 h == hash_api_key(last.key)
                 entry == cache[last.proc][h]
             IN  /\ ~last.ok => Answered(500, "internal_error")
                 /\ (last.ok /\ item = NoItem) => Answered(401, "invalid_api_key")
                 /\ (last.ok /\ item # NoItem /\ item.status # "active")
                        => Answered(401, "revoked_api_key")
                 /\ (last.ok /\ item # NoItem /\ item.status = "active"
                        /\ item.expires_at # NoTime /\ item.expires_at < now)
                        => Answered(401, "expired_api_key")
                 /\ (last.ok /\ item # NoItem /\ item.status = "active"
                        /\ ~(item.expires_at # NoTime /\ item.expires_at < now))
                        => /\ Answered(200, "handler")
                           /\ last.via = "api_key" /\ last.ident = item.user_sub
                           /\ entry # NoEntry /\ entry.user_sub = item.user_sub
                           /\ entry.cache_expires = last.t0 + API_KEY_CACHE_TTL
        /\ last.resp.status # 200 => last.resp.code # "handler" /\ last.via = ""

\* a key both revoked and past its expiry is answered revoked_api_key
C6_RevokedBeforeExpired ==
    /\ KeyRequest /\ LookedUp /\ last.ok /\ last.item # NoItem
    /\ last.item.status = "revoked" /\ last.item.expires_at < now
    /\ Answered(401, "revoked_api_key")

C8_StatusOnlyRevokes ==
    [][\A h \in Hashes :
         store[h] # NoItem =>
           /\ store'[h] # NoItem
           /\ store'[h].status # store[h].status =>
                /\ store[h].status = "active" /\ store'[h].status = "revoked"
                /\ \E r \in ReqIds :
                     /\ reqs[r].kind = "revoke" /\ reqs[r].pc = "update"
                     /\ reqs'[r].pc = "updated" /\ reqs'[r].ok]_vars

\* a key that was created, used and revoked, every touch having run
C8_UsedAndRevoked ==
    LET item == store[hash_api_key(Key("1", "x"))] IN
    /\ item # NoItem /\ item.status = "revoked" /\ item.last_used_at # NoTime
    /\ touches[1] = {}

\* C9: a create whose list of the user's keys holds MAX_KEYS_PER_USER or more
\* active records answers 409 without a put; with fewer active records,
\* however many revoked ones there are, it goes on to the put.
C9_LimitOnActiveKeys ==
    (last.kind = "create" /\ "query" \in last.calls /\ last.ok) =>
        LET active == {k \in last.items : k.status = "active"} IN
        IF Cardinality(active) >= MAX_KEYS_PER_USER
        THEN last.resp.status = 409 /\ "put" \notin last.calls
        ELSE last.resp.status \in {201, 500} /\ "put" \in last.calls

\* 409 at exactly the limit, a revoked key in the list besides
C9_RefusedAtLimit ==
    /\ last.kind = "create" /\ last.resp.status = 409
    /\ Cardinality({k \in last.items : k.status = "active"}) = MAX_KEYS_PER_USER
    /\ \E k \in last.items : k.status = "revoked"

NoRawKey(b) ==
    /\ "key" \notin DOMAIN b
    /\ "key_prefix" \in DOMAIN b => b.key_prefix \notin RawKeys
    /\ "description" \in DOMAIN b => b.description \notin RawKeys

\* C10: a raw key is in the body of the 201 that created it and nowhere
\* else: a record holds the hash and at most KEY_PREFIX_LEN characters of it,
\* a cache entry holds none of it, and no other response carries it.
C10_RawKeyOnlyInCreated ==
    /\ \A h \in Hashes :
         store[h] # NoItem =>
           /\ store[h].key_hash = h
           /\ Len(store[h].key_prefix) <= KEY_PREFIX_LEN
           /\ \E k \in RawKeys : hash_api_key(k) = h /\ StartsWith(k, store[h].key_prefix)
           /\ store[h].key_prefix \notin RawKeys
           /\ store[h].user_email \notin RawKeys
           /\ store[h].description \notin RawKeys
    /\ \A p \in Procs, h \in Hashes :
         cache[p][h] # NoEntry =>
           /\ DOMAIN cache[p][h] = {"user_sub", "user_email", "cache_expires"}
           /\ cache[p][h].user_email \notin RawKeys
    /\ (last.kind # "idle" /\ last.resp.status # 201) =>
         \A b \in last.resp.body : NoRawKey(b)
    /\ (last.kind # "idle" /\ last.resp.status = 201) =>
         \A b \in last.resp.body : b.key = last.key /\ b.key \in RawKeys

\* the list of a user who created a key shows its prefix and not the key
C10_ListedAfterCreate ==
    /\ last.kind = "list" /\ last.resp.status = 200 /\ last.auth = Bearer("A")
    /\ \E b \in last.resp.body :
         /\ b.key_prefix = SubSeq(Key("1", "x"), 1, KEY_PREFIX_LEN)
         /\ b.status = "revoked"
    /\ pool = {}

\* C2: the messages translate_openai_to_converse returns have strictly
\* alternating roles: no two adjacent messages have the same role.
C2_RolesAlternate ==
    params # NoParams =>
        \A i \in 1 .. Len(params.messages) - 1 :
            params.messages[i].role # params.messages[i + 1].role

DoneFrames == {i \in DOMAIN frames : frames[i].kind = "done"}

\* C4 as stated: a streaming response begins with the messageStart chunk and
\* ends with exactly one [DONE] frame, on the normal and on the failure path.
C4_RoleFirstDoneLast ==
    (stream_pc = "returned" /\ client_open) =>
        /\ frames # <<>>
        /\ frames[1].kind = "role"
        /\ DoneFrames = {Len(frames)}

\* C4, amended: [DONE] is written at most once and nothing follows it; a
\* response whose client stayed connected ends with it; the first frame is
\* the messageStart chunk whenever the upstream stream yielded an event, and
\* otherwise the response is the error chunk and [DONE], or [DONE] alone.
C4_OneDoneLast ==
    /\ Cardinality(DoneFrames) <= 1
    /\ \A i \in DoneFrames : i = Len(frames)
    /\ (stream_pc = "returned" /\ client_open) => DoneFrames = {Len(frames)}
    /\ (frames # <<>> /\ delivered # <<>>) => frames[1].kind = "role"
    /\ (frames # <<>> /\ delivered = <<>>) =>
          \/ frames = <<DoneFrame>>
          \/ frames = <<ErrorFrame>>
          \/ frames = <<ErrorFrame, DoneFrame>>

\* the upstream stream raised after its first events: the role chunk first,
\* the error chunk and one [DONE] last
C4_FailedMidStream ==
    /\ stream_pc = "returned" /\ client_open
    /\ Len(frames) >= 4
    /\ frames[1].kind = "role"
    /\ frames[Len(frames) - 1].kind = "error"
    /\ DoneFrames = {Len(frames)}

\* C5: the frames written for upstream events are in the order the events
\* arrived, each of the kind its event calls for; the usage frame comes after
\* the frame carrying finish_reason and before [DONE].
C5_ArrivalOrder ==
    /\ \A i, j \in DOMAIN frames :
         (i < j /\ frames[i].ev > 0 /\ frames[j].ev > 0) => frames[i].ev < frames[j].ev
    /\ \A i \in DOMAIN frames :
         frames[i].ev > 0 =>
           /\ frames[i].ev <= Len(delivered)
           /\ LET type == delivered[frames[i].ev].type IN
              /\ frames[i].kind = "role" <=> type = "messageStart"
              /\ frames[i].kind = "finish" <=> type = "messageStop"
              /\ frames[i].kind = "usage" <=> type = "metadata"
    /\ \A u \in DOMAIN frames :
         frames[u].kind = "usage" =>
           /\ \E f \in 1 .. u - 1 : frames[f].kind = "finish"
           /\ \A d \in DoneFrames : d > u

\* a whole response: tool call, finish_reason, usage, [DONE]
C5_UsageBetweenFinishAndDone ==
    /\ stream_pc = "returned" /\ eof_sent
    /\ \E t, f, u \in DOMAIN frames :
         /\ t < f /\ f < u /\ u < Len(frames)
         /\ frames[t].kind = "tool_args"
         /\ frames[f].kind = "finish" /\ frames[f].finish_reason = "tool_calls"
         /\ frames[u].kind = "usage"
    /\ frames[Len(frames)].kind = "done"

\* C3: every response carries X-Request-ID: the request's own when it sent
\* one, a fresh UUID otherwise.
C3_RequestIdOnEveryResponse ==
    http.pc = "done" =>
        http.resp.request_id = IF http.rid # Absent THEN http.rid ELSE FreshUuid

\* C11: of the revokes of one key at most one answers 200, and the store
\* update of a revoke never writes to a record that is already revoked.
C11_RevokeOnce ==
    [][/\ (last'.kind = "revoke" /\ last'.resp.status = 200) =>
             <<last'.proc, last'.item.key_hash>> \notin revokedOK
       /\ \A r \in ReqIds :
             (/\ reqs[r].kind = "revoke" /\ reqs[r].pc = "update"
              /\ reqs'[r].pc = "updated" /\ reqs'[r].ok) =>
                 store[reqs[r].item.key_hash].status # "revoked"]_vars

\* the step is the store update of a revoke made with the bearer identity u
RevokeUpdateBy(u) ==
    \E r \in ReqIds :
        /\ reqs[r].kind = "revoke" /\ reqs[r].pc = "update"
        /\ reqs'[r].pc = "updated"
        /\ extract_jwt_identity(reqs[r].auth) = u

\* C12: the status and revoked_at of a record change only in the store
\* update of a revoke made with its owner's bearer identity, and a revoke
\* only ever targets a record of its caller.
C12_OwnerOnlyRevokes ==
    [][/\ \A h \in Hashes :
             (/\ store[h] # NoItem
              /\ \/ store'[h].status # store[h].status
                 \/ store'[h].revoked_at # store[h].revoked_at) =>
                 RevokeUpdateBy(store[h].user_sub)
       /\ \A r \in ReqIds :
             (reqs'[r].kind = "revoke" /\ reqs'[r].pc = "update") =>
                 reqs'[r].item.user_sub = extract_jwt_identity(reqs'[r].auth)]_vars

\* A revoked a key of their own whose prefix B's key shares; B's is active
C12_SharedPrefixRevoked ==
    /\ last.kind = "revoke" /\ last.resp.status = 200
    /\ extract_jwt_identity(last.auth) = "A"
    /\ last.prefix = Take(Key("1", "y"), KEY_PREFIX_LEN)
    /\ store[hash_api_key(Key("1", "y"))].user_sub = "B"
    /\ store[hash_api_key(Key("1", "y"))].status = "active"

\* the Authorization header holds a Bearer token whose payload has a sub
HasSub(auth) ==
    /\ auth.scheme = "Bearer"
    /\ decode_jwt_payload(auth) # NoClaims
    /\ IsObject(decode_jwt_payload(auth))
    /\ decode_jwt_payload(auth).sub # ""

\* C13: a create, list or revoke request without a Bearer token whose
\* payload has a non-empty sub is answered 401 and has made no store call.
C13_LifecycleNeedsBearer ==
    (last.kind \in {"create", "list", "revoke"} /\ ~HasSub(last.auth)) =>
        (last.resp.status = 401 /\ last.calls = {})

\* /health, /ready, /health/... and /v1/update/...
GateExempt(path) ==
    \/ path = <<"health">> \/ path = <<"ready">>
    \/ Len(path) > 1 /\ path[1] = "health"
    \/ Len(path) > 2 /\ path[1] = "v1" /\ path[2] = "update"

\* C14: the version gate hands a request to /health, /ready, /health/... or
\* /v1/update/... to the next stage in one step that leaves the version
\* policy alone; such a request never waits for the policy and is never
\* answered 426.
C14_ExemptPathsPass ==
    [][/\ (http.pc = "gate" /\ GateExempt(http.path) /\ http' # http) =>
             (http'.pc = "auth" /\ version_policy' = version_policy)
       /\ GateExempt(http'.path) =>
             (http'.pc \notin {"policy", "gated"} /\ http'.resp.status # 426)]_vars

\* an outdated client reached the handler of /v1/update/... while the cached
\* minimum was above its version
C14_OutdatedClientUpdates ==
    /\ http.pc = "handler"
    /\ http.path = <<"v1", "update", "config">>
    /\ http.client_version = <<"1", ".", "9", ".", "0">>
    /\ version_policy.minimum = <<"2", ".", "0", ".", "0">>

\* a before b in the lexicographic order of triples
LexLess(a, b) ==
    \E i \in 1 .. 3 : a[i] < b[i] /\ \A j \in 1 .. i - 1 : a[j] = b[j]

\* the request is past the version gate, or the gate answered it
PastGate == http.pc \in {"auth", "logger", "handler", "done"}

\* C15: a request that is past the gate was answered 426 by it exactly when
\* its path is not exempt, X-Client-Version is non-empty and not dev, the
\* minimum is known and non-empty, both parse, and the client's triple is
\* lexicographically smaller; otherwise it went on to the next stage.
C15_Rejects426Iff ==
    PastGate =>
        ((http.resp.status = 426 /\ http.resp.code = "client_outdated") <=>
            (/\ ~GateExempt(http.path)
             /\ http.client_version # <<>>
             /\ http.client_version # <<"d", "e", "v">>
             /\ http.minimum # NoVersion /\ http.minimum # <<>>
             /\ parse_semver(http.client_version) # Unparsed
             /\ parse_semver(http.minimum) # Unparsed
             /\ LexLess(parse_semver(http.client_version),
                        parse_semver(http.minimum))))

\* client 1.9.0 was answered 426 under minimum 2.0.0
C15_OutdatedRejected ==
    /\ http.pc = "done" /\ http.resp.status = 426
    /\ http.client_version = <<"1", ".", "9", ".", "0">>
    /\ http.minimum = <<"2", ".", "0", ".", "0">>

\* the id begins with "anthropic." or with "us.anthropic."
AnthropicPrefixed(id) ==
    \/ Len(id) >= 2 /\ id[1] = "anthropic"
    \/ Len(id) >= 3 /\ id[1] = "us" /\ id[2] = "anthropic"

\* the calls made so far to either backend
BackendCalls ==
    chat.converse_calls + chat.posts + (IF stream_pc = "idle" THEN 0 ELSE 1)

\* C16: a request with a well-formed body has its model looked up once in
\* the alias map and goes to the Converse backend exactly when the result
\* begins with anthropic. or us.anthropic., otherwise to the OpenAI-HTTP
\* backend; it calls at most one backend, the one chosen, and on the
\* Converse path it neither asks for the upstream token nor POSTs.
C16_OneBackendByPrefix ==
    chat.route # "" =>
        /\ chat.model = IF chat.requested \in DOMAIN model_map
                        THEN model_map[chat.requested] ELSE chat.requested
        /\ chat.route = "converse" <=> AnthropicPrefixed(chat.model)
        /\ chat.route = "mantle" <=> ~AnthropicPrefixed(chat.model)
        /\ BackendCalls <= 1
        /\ chat.route = "converse" => (chat.token_calls = 0 /\ chat.posts = 0)
        /\ chat.route = "mantle" => (chat.converse_calls = 0 /\ stream_pc = "idle")

\* an alias whose value is itself an alias went to the OpenAI-HTTP backend
C16_AliasOfAliasProxied ==
    /\ model_map = OverrideModelMap
    /\ chat.requested = <<"fast">>
    /\ chat.route = "mantle"
    /\ chat.posts = 1

\* C17: when the Converse call fails, a unary request is answered 502 with
\* the generic error body, and a streaming request whose client is still
\* connected gets exactly one error chunk, then [DONE], then the end of the
\* stream, after whatever frames went before; neither handler raises, and
\* the error text is not the exception's message.
C17_ConverseFailureContained ==
    /\ (chat.route = "converse" /\ chat.pc = "done") => ~chat.resp.raised
    /\ (chat.pc = "done" /\ chat.failed /\ chat.route = "converse") =>
           /\ chat.resp.status = 502
           /\ chat.resp.message =
                  "An internal error occurred while processing the request."
           /\ chat.resp.message # upstream_exc
    /\ (stream_pc = "returned" /\ upstream_exc # "" /\ client_open) =>
           LET n == Len(frames) IN
           /\ n >= 2
           /\ frames[n - 1] = ErrorFrame
           /\ frames[n] = DoneFrame
           /\ \A i \in 1 .. n - 2 : frames[i].kind \notin {"error", "done"}
           /\ eof_sent

\* the upstream stream broke off after two frames had gone out
C17_FailedAfterFrames ==
    /\ stream_pc = "returned" /\ upstream_exc # "" /\ client_open
    /\ Len(frames) = 4
    /\ chat.pc = "done"

\* the frames the spec has the proxy end a broken stream with
InBandError == <<DataLine("{error}")>>
InBandDone == <<DataLine("[DONE]")>>

\* C18: on the OpenAI-HTTP backend a request whose upstream call failed in
\* transport is answered 502, and one whose stream failed after chunks were
\* forwarded ends with an error chunk followed by [DONE].
C18_ProxyFailureReported ==
    (chat.route = "mantle" /\ chat.pc = "done" /\ chat.failed) =>
        IF chat.prepared /\ chat.written # <<>>
        THEN /\ Len(chat.written) >= 2
             /\ chat.written[Len(chat.written) - 1] = InBandError
             /\ chat.written[Len(chat.written)] = InBandDone
        ELSE chat.resp.status = 502

ToolUseReturned ==
    /\ chat.pc = "done" /\ chat.result # NoResult
    /\ \E i \in DOMAIN chat.response.content :
           "toolUse" \in DOMAIN chat.response.content[i]

\* C20 as stated: a unary response with a toolUse block is translated with
\* finish_reason tool_calls, whatever its stopReason.
C20_ToolUseGivesToolCalls ==
    ToolUseReturned => chat.result.finish_reason = "tool_calls"

\* C20: a unary response with a toolUse block is translated with
\* finish_reason length when its stopReason is max_tokens, content_filter
\* when it is content_filtered, and tool_calls for every other stopReason
\* and when there is none.
C20_ToolUseUpgradesStop ==
    ToolUseReturned =>
        chat.result.finish_reason =
            IF chat.response.stopReason = "max_tokens" THEN "length"
            ELSE IF chat.response.stopReason = "content_filtered"
            THEN "content_filter"
            ELSE "tool_calls"

\* a response that ended its turn with a tool call after some text
C20_EndTurnWithToolUse ==
    /\ ToolUseReturned
    /\ chat.response.stopReason = "end_turn"
    /\ Len(chat.response.content) = 2
    /\ chat.result.tool_calls # <<>>
    /\ chat.result.finish_reason = "tool_calls"

\* the usage objects the router has emitted, each with the Converse usage it
\* was built from: the unary result's and the streaming usage chunks'
EmittedUsages ==
    (IF chat.pc = "done" /\ chat.result # NoResult
     THEN {<<chat.response.usage, chat.result.usage>>} ELSE {})
    \cup {<<delivered[frames[i].ev].usage, frames[i].usage>> :
             i \in {j \in DOMAIN frames : frames[j].kind = "usage"}}

\* C21: in every emitted usage object, unary or streamed, prompt_tokens is
\* inputTokens, completion_tokens is outputTokens, each 0 when Bedrock left
\* it out, and total_tokens is their sum.
C21_TotalIsPromptPlusCompletion ==
    \A e \in EmittedUsages :
        /\ e[2].prompt_tokens = DictGet(e[1], "inputTokens", 0)
        /\ e[2].completion_tokens = DictGet(e[1], "outputTokens", 0)
        /\ e[2].total_tokens = e[2].prompt_tokens + e[2].completion_tokens

\* a stream ended with a usage chunk built from a usage without inputTokens
C21_StreamedUsageWithDefault ==
    /\ stream_pc = "returned"
    /\ \E i \in DOMAIN frames :
          /\ frames[i].kind = "usage"
          /\ delivered[frames[i].ev].usage =
                 Dict({<<"outputTokens", 2>>, <<"cacheReadInputTokens", 5>>})
          /\ frames[i].usage.prompt_tokens = 0
          /\ frames[i].usage.total_tokens = 2

CacheFields ==
    {"prompt_tokens_details", "cache_read_input_tokens", "cache_creation_input_tokens"}

\* C22: an emitted usage object carries prompt_tokens_details,
\* cache_read_input_tokens and cache_creation_input_tokens exactly when
\* cacheReadInputTokens or cacheWriteInputTokens is present and nonzero, and
\* none of the three otherwise; cached_tokens is cacheReadInputTokens.
C22_CacheFieldsIffCacheTokens ==
    \A e \in EmittedUsages :
        LET read == DictGet(e[1], "cacheReadInputTokens", 0)
            write == DictGet(e[1], "cacheWriteInputTokens", 0)
        IN  IF read # 0 \/ write # 0
            THEN /\ CacheFields \subseteq DOMAIN e[2]
                 /\ e[2].prompt_tokens_details.cached_tokens = read
                 /\ e[2].cache_read_input_tokens = read
                 /\ e[2].cache_creation_input_tokens = write
            ELSE CacheFields \cap DOMAIN e[2] = {}

\* a unary response reported cache writes and no cache reads
C22_UnaryCacheWriteOnly ==
    /\ chat.pc = "done" /\ chat.result # NoResult
    /\ DictGet(chat.response.usage, "cacheWriteInputTokens", 0) = 4
    /\ DictGet(chat.response.usage, "cacheReadInputTokens", 0) = 0
    /\ chat.result.usage.prompt_tokens_details.cached_tokens = 0

\* the tool calls of the body's assistant messages, in order, and the tool
\* calls translated back from the Converse messages, in order
OriginalToolCalls ==
    Flatten([i \in DOMAIN body.messages |->
                IF "tool_calls" \in DOMAIN body.messages[i]
                THEN body.messages[i].tool_calls ELSE <<>>])
BackToolCalls == Flatten(back)

\* the body's tool messages, in order, and the toolResult blocks of the
\* Converse messages, in order
OriginalToolResults ==
    SelectSeq(body.messages, LAMBDA msg : msg.role = "tool")
TranslatedToolResults ==
    Flatten([i \in DOMAIN params.messages |->
                SelectSeq(params.messages[i].content,
                          LAMBDA b : "toolResult" \in DOMAIN b)])

\* a body without tools went to Converse and its toolUse blocks came back
RoundTripped == back # NoBack /\ "tools" \notin DOMAIN body

\* ids and names come back one for one, in the original order
SameCalls ==
    /\ Len(BackToolCalls) = Len(OriginalToolCalls)
    /\ \A k \in DOMAIN OriginalToolCalls :
          /\ BackToolCalls[k].id = OriginalToolCalls[k].id
          /\ BackToolCalls[k].name = OriginalToolCalls[k].name

\* each tool result keeps its tool-use id and its content, a content that is
\* not a string as the JSON text of it
SameResults ==
    /\ Len(TranslatedToolResults) = Len(OriginalToolResults)
    /\ \A k \in DOMAIN OriginalToolResults :
          LET msg == OriginalToolResults[k]
              result == TranslatedToolResults[k].toolResult
          IN  /\ result.toolUseId = msg.tool_call_id
              /\ Len(result.content) = 1
              /\ IF IsStr(msg.content)
                 THEN result.content[1].text = msg.content.str
                 ELSE result.content[1].text.dumped = msg.content.parts

\* the arguments text that came back is JSON-equal to the original text
JsonEqual(arguments, dumped) ==
    /\ arguments \in JsonObjects
    /\ \/ arguments = "{}" /\ dumped.dumped = [object |-> {}]
       \/ /\ arguments \in {"{\"a\":1}", "{ \"a\": 1 }"}
          /\ dumped.dumped = [object |-> {<<"a", "number", "1">>}]

\* C23 as stated: the round trip of a body without tools preserves every
\* tool call's id, name and JSON-equal input, in order, and every tool
\* result's tool-use id and content.
C23_RoundTripPreserves ==
    RoundTripped =>
        /\ SameCalls
        /\ SameResults
        /\ \A k \in DOMAIN OriginalToolCalls :
              k \in DOMAIN BackToolCalls =>
                JsonEqual(OriginalToolCalls[k].arguments, BackToolCalls[k].arguments)

\* C23: the round trip of a body without tools preserves every tool call's
\* id and name, in order, and every tool result's tool-use id and content;
\* arguments that parse as JSON come back JSON-equal, and arguments that do
\* not parse come back as the object {"raw": <the arguments text>}.
C23_RoundTripPreservesParsed ==
    RoundTripped =>
        /\ SameCalls
        /\ SameResults
        /\ \A k \in DOMAIN OriginalToolCalls :
              k \in DOMAIN BackToolCalls =>
                LET arguments == OriginalToolCalls[k].arguments IN
                IF arguments \in JsonObjects
                THEN JsonEqual(arguments, BackToolCalls[k].arguments)
                ELSE BackToolCalls[k].arguments.dumped =
                         [object |-> {<<"raw", "string", arguments>>}]

\* two tool calls whose arguments are two spellings of one object, then a
\* tool result whose content is not a string, went round
C23_TwoCallsAndResultWentRound ==
    /\ RoundTripped
    /\ Len(body.messages) = 2
    /\ Len(OriginalToolCalls) = 2 /\ Len(OriginalToolResults) = 1
    /\ ~IsStr(OriginalToolResults[1].content)
    /\ BackToolCalls[1].id = "t2" /\ BackToolCalls[2].id = "t3"
    /\ BackToolCalls[1].arguments = BackToolCalls[2].arguments

\* C24: every write of last_used_at stores a timestamp that is not earlier
\* than the one it replaces, whichever workers run the updates.
C24_LastUsedMonotonic ==
    [][\A h \in Hashes :
          (store[h] # NoItem /\ store'[h] # NoItem)
              => store'[h].last_used_at >= store[h].last_used_at]_vars

\* C25: GET /ready answers 200 with token_status valid when get_token
\* returned and 503 when it raised, whatever the provider gave.
C25_ReadyAlwaysAnswers ==
    \A c \in Coroutines :
        (getters[c].pc = "done" /\ getters[c].handler = "ready") =>
            IF getters[c].raised
            THEN getters[c].resp.status = 503
            ELSE getters[c].resp.status = 200 /\ getters[c].resp.message = "valid"

\* the table of the stop reasons, a stop reason left out counting as end_turn
StopReasonTable(stopReason) ==
    IF stopReason \in {"(absent)", "end_turn", "stop_sequence"} THEN "stop"
    ELSE IF stopReason = "tool_use" THEN "tool_calls"
    ELSE IF stopReason = "max_tokens" THEN "length"
    ELSE IF stopReason = "content_filtered" THEN "content_filter"
    ELSE "stop"

\* C26: every stop reason is mapped, by one table: end_turn and
\* stop_sequence to stop, tool_use to tool_calls, max_tokens to length,
\* content_filtered to content_filter, anything else to stop.  The unary
\* finish_reason is the table's value (tool_calls in place of stop when the
\* response has tool calls) and the finish chunk of a stream carries the
\* table's value for its messageStop event.
C26_StopReasonTable ==
    /\ (chat.pc = "done" /\ chat.result # NoResult) =>
          LET mapped == StopReasonTable(chat.response.stopReason) IN
          chat.result.finish_reason =
              IF chat.result.tool_calls # <<>> /\ mapped = "stop"
              THEN "tool_calls" ELSE mapped
    /\ \A i \in DOMAIN frames :
          frames[i].kind = "finish" =>
              frames[i].finish_reason =
                  StopReasonTable(delivered[frames[i].ev].stopReason)

\* a stream stopped by the content filter got its finish chunk, and another
\* reason the table does not name would have given stop
C26_StreamContentFiltered ==
    /\ stream_pc = "returned"
    /\ \E i \in DOMAIN frames :
          /\ frames[i].kind = "finish"
          /\ delivered[frames[i].ev].stopReason = "content_filtered"
          /\ frames[i].finish_reason = "content_filter"

\* the coroutines whose call of provide_token has not returned yet
InFlight == {c \in Coroutines : getters[c].pc = "provide"}

\* coroutine c reads _token at line 234 in this step
ReadsToken(c) ==
    getters[c].pc \in {"idle", "done"} /\ getters'[c].pc \in {"provide", "done"}
        /\ getters'[c] # getters[c]

\* a provider call starts in this step
ProviderCalled ==
    \E c \in Coroutines : getters[c].pc # "provide" /\ getters'[c].pc = "provide"

\* C27 as stated: at most one provider call is in flight, every expiry
\* cycle sees exactly one provider call, and no reader sees a torn pair.
C27_OneProviderCallPerCycle ==
    [][/\ Cardinality(InFlight') <= 1
       /\ ProviderCalled => cycle = "none"
       /\ \A c \in Coroutines :
             ReadsToken(c) =>
                 \A other \in Coroutines : getters[other].pc # "store_expires"]_vars

\* C27: at most one provider call is in flight at a time; a provider call
\* starts only when none has been made since the cache was last filled, or
\* when the last one raised or gave an empty token; and no reader reads
\* _token between the store of the value and the store of the expiry.
C27_RefreshesSerialized ==
    [][/\ Cardinality(InFlight') <= 1
       /\ ProviderCalled => cycle \in {"none", "failed"}
       /\ \A c \in Coroutines :
             ReadsToken(c) =>
                 \A other \in Coroutines : getters[other].pc # "store_expires"]_vars

\* one request refreshed the token and a later one on the other coroutine
\* was served from the cache
C27_RefreshedOnceThenServed ==
    /\ getters[1].pc = "done" /\ getters[1].provider_calls = 1
    /\ getters[1].returned = "tok"
    /\ getters[2].pc = "done" /\ getters[2].provider_calls = 0
    /\ getters[2].returned = "tok"
    /\ getters[2].now > getters[1].now
    /\ _token.expires = getters[1].now + TOKEN_TTL
    /\ cycle = "none"

\* C28: get_token returns the cached token, without a provider call, exactly
\* when a token is cached and now < expires; otherwise it calls the provider
\* once, and what the provider gives is stored with expires = now + 3600
\* and returned; and no token is returned at or after the stored expiry.
C28_CachedIffFresh ==
    [][\A c \in Coroutines :
          /\ ReadsToken(c) =>
                IF _token.value # "" /\ now < _token.expires
                THEN /\ getters'[c].pc = "done" /\ ~getters'[c].raised
                     /\ getters'[c].returned = _token.value
                     /\ getters'[c].provider_calls = 0
                     /\ _token' = _token
                ELSE /\ getters'[c].pc = "provide"
                     /\ getters'[c].provider_calls = 1
          /\ (getters[c].pc = "store_expires" /\ getters'[c].pc = "done") =>
                /\ _token' = [value |-> getters[c].tok,
                              expires |-> getters[c].now + TOKEN_TTL]
                /\ getters'[c].returned = getters[c].tok
                /\ getters'[c].provider_calls = 1
          /\ (getters[c].pc # "done" /\ getters'[c].pc = "done"
                 /\ ~getters'[c].raised /\ getters'[c].returned # "")
                => now' < _token'.expires]_vars

\* a call made at the very second the cached token expired went to the
\* provider and stored the new token for an hour from then
C28_RefreshedAtExpiry ==
    \E c \in Coroutines :
        /\ getters[c].pc = "done" /\ getters[c].provider_calls = 1
        /\ getters[c].now = 2 * Tick
        /\ getters[c].returned = "tok"
        /\ _token = [value |-> "tok", expires |-> 2 * Tick + TOKEN_TTL]

\* get_token raised in this step of the chat handler
TokenCallFailed == chat.pc = "token" /\ chat'.pc # "token" /\ chat'.pc # "post"

\* C29: when the token provider fails during a chat request for the
\* OpenAI-HTTP backend, the request is answered 500, no POST is made, and
\* the token cache keeps its value and its expiry, still not fresh, so that
\* the next request calls the provider again.
C29_ProviderFailureLeavesCache ==
    [][TokenCallFailed =>
         /\ chat'.pc = "done"
         /\ chat'.resp.status = 500 /\ ~chat'.resp.raised
         /\ chat'.posts = 0 /\ chat'.converse_calls = 0
         /\ _token' = _token
         /\ ~(_token'.value # "" /\ now' < _token'.expires)]_vars

\* a request found an expired token in the cache, the provider failed, and
\* the expired token is still there
C29_FailedWithExpiredToken ==
    /\ chat.pc = "done" /\ chat.route = "mantle"
    /\ chat.resp = ChatResp(500, "Authentication failed")
    /\ chat.posts = 0 /\ chat.token_calls = 1
    /\ _token = [value |-> "tok", expires |-> 0]

\* what the later stages read of the request and what they attach to it
RequestContext(h) ==
    <<h.path, h.rid, h.client_version, h.auth, h.key, h.request_id,
      h.auth_source, h.user_sub>>

\* the request is inside the version gate
InGate == http.pc \in {"gate", "policy", "gated"}

\* C30: a request goes through the version gate, then the authenticator,
\* then the logger, then the handler: the handler is entered only from the
\* logger, the logger only from an authenticator that passed the request,
\* the authenticator only from the gate.  A 426 comes from the gate alone,
\* before any key-store lookup, validation-cache access, last_used_at touch
\* or request log event for that request, and the gate hands the request
\* context on as it received it.
C30_GateAuthLoggerHandler ==
    [][/\ (http'.pc = "handler" /\ http.pc # "handler") => http.pc = "logger"
       /\ (http'.pc = "logger" /\ http.pc # "logger") =>
             /\ http.pc = "auth"
             /\ \/ IsHealthPath(http.path) \/ IsApiKeysPath(http.path)
                \/ IsUpdatePath(http.path)
                \/ last.kind = "auth" /\ last.resp.status = 200
       /\ (http'.pc = "auth" /\ http.pc # "auth") => InGate
       /\ (http'.pc \in {"policy", "gated"} /\ http'.pc # http.pc) => InGate
       /\ (http'.pc = "gate" /\ http.pc # "gate") => http.pc = "idle"
       /\ (http'.resp.status = 426 /\ http.resp.status # 426) =>
             http.pc = "gated" /\ http'.pc = "done"
       /\ InGate =>
             /\ store' = store /\ cache' = cache /\ touches' = touches
             /\ reqs' = reqs
             /\ RequestContext(http') = RequestContext(http)
             /\ http.request_id = "(absent)" /\ http.auth_source = ""]_vars

\* a request with a valid API key and an outdated client was answered 426:
\* nothing was looked up, cached, touched or logged
C30_OutdatedKeyHolderRejected ==
    /\ http.pc = "done" /\ http.resp.status = 426
    /\ http.key = Key("2", "x")
    /\ http.request_id = "(absent)" /\ http.auth_source = ""
    /\ cache = EmptyCache /\ touches[1] = {}
    /\ reqs[1] = Idle

\* C31: a cached minimum younger than VERSION_POLICY_TTL is returned without
\* a fetch; an older one, or none, makes one fetch where a bucket is named;
\* a failed fetch returns the cached minimum and leaves minimum and
\* fetched_at as they were; and with no minimum known the gate passes the
\* request on.
C31_PolicyFailsOpen ==
    [][/\ (http.pc = "policy" /\ http'.pc = "gated") =>
             IF /\ version_policy.minimum # NoVersion
                /\ now < version_policy.fetched_at + 300
             THEN /\ http'.s3_calls = 0
                  /\ http'.minimum = version_policy.minimum
                  /\ version_policy' = version_policy
             ELSE IF ~DISTRIBUTION_BUCKET
             THEN /\ http'.s3_calls = 0
                  /\ http'.minimum = NoVersion
                  /\ version_policy' = version_policy
             ELSE /\ http'.s3_calls = 1
                  /\ \/ /\ version_policy' = version_policy
                        /\ http'.minimum = version_policy.minimum
                     \/ /\ version_policy'.fetched_at = now
                        /\ version_policy'.minimum \in Manifests
                        /\ http'.minimum = version_policy'.minimum
       /\ (http.pc = "gated" /\ http.minimum = NoVersion /\ http' # http) =>
             http'.pc = "auth" /\ http'.resp = http.resp]_vars

\* the cached minimum had gone stale, the fetch failed, and the outdated
\* client was still rejected on the minimum fetched before
C31_RejectedOnStaleMinimum ==
    /\ http.pc = "done" /\ http.resp.status = 426
    /\ http.s3_calls = 1
    /\ version_policy.minimum = http.minimum
    /\ now >= version_policy.fetched_at + 300

\* C32: whatever creates and revokes have run and however they overlapped,
\* no user has more than MAX_KEYS_PER_USER records with status active.
C32_LimitIsStoreInvariant ==
    \A u \in {"A", "B"} :
        Cardinality({h \in Hashes : /\ store[h] # NoItem
                                    /\ store[h].user_sub = u
                                    /\ store[h].status = "active"}) <= 10

\* C33: a request is authenticated by a key no later than the expires_at of
\* the key's record, whether the validation cache or the store answered.
C33_NeverAfterExpiry ==
    AuthenticatedByKey =>
        LET item == store[hash_api_key(last.key)] IN
        item.expires_at # NoTime => now <= item.expires_at

\* C34: a request in the route handler of /v1/models or /v1/chat/completions
\* has auth_source jwt or api_key and a user_sub; one whose bearer token
\* does not decode is not there without an identity.
C34_HandlerHasIdentity ==
    (/\ http.pc = "handler"
     /\ http.path \in {<<"v1", "models">>, <<"v1", "chat", "completions">>}) =>
        /\ http.auth_source \in {"jwt", "api_key"}
        /\ http.user_sub # ""

\* C35: the SDK client and the key-store handle are each constructed at
\* most once in a process, and every caller uses the one handle.
C35_HandlesBuiltOnce ==
    /\ built.client <= 1 /\ Cardinality(used.client) <= 1
    /\ built.table <= 1 /\ Cardinality(used.table) <= 1

\* C36: once the client has disconnected, a frame write in the loop or of
\* [DONE] fails and writes nothing, and from there the handler pulls no
\* further event, writes no further frame, and its next step is its return.
C36_FailedWriteEndsStream ==
    [][~client_open =>
         /\ (stream_pc = "pull" /\ delivered' # delivered
                /\ ChunkFor(delivered'[Len(delivered')], Len(delivered'), tool_idx')
                       # NoFrame)
               => frames' = frames /\ stream_pc' = "err_chunk"
         /\ stream_pc = "done_frame"
               => frames' = frames /\ stream_pc' = "err_chunk"
         /\ stream_pc = "err_chunk"
               => /\ frames' = frames /\ delivered' = delivered
                  /\ stream_pc' = "returned" /\ eof_sent' = eof_sent]_vars

\* the handler returned after a chunk write failed in mid-stream: events
\* delivered, the last frame a chunk, no [DONE] and no end of file
C36_ReturnedAfterFailedWrite ==
    /\ stream_pc = "returned" /\ ~client_open /\ ~eof_sent /\ upstream_exc = ""
    /\ frames # <<>>
    /\ frames[Len(frames)] \notin {DoneFrame, ErrorFrame}
    /\ ~CanEnd(delivered)

\* C37: a request on a path other than the health paths that has reached the
\* logger has one "Request started" in the log, followed once its handler
\* has ended by one "Request completed" when the handler returned a
\* response or one "Request failed" when it raised and the exception went
\* on, each with the request's id; a request on a health path has a request
\* id and no event; a request that has not reached the logger has no event.
C37_StartedThenCompletedOrFailed ==
    LET id == IF http.rid # Absent THEN http.rid ELSE FreshUuid
        Event(e) == [event |-> e, request_id |-> id]
        ThroughLogger == http.pc = "done" /\ http.resp.code \in {"handler", "unhandled"}
    IN  /\ (http.pc = "handler" \/ ThroughLogger) => http.request_id = id
        /\ IsHealthPath(http.path) => http.log = <<>>
        /\ ~IsHealthPath(http.path) =>
              /\ http.pc = "handler" => http.log = <<Event("Request started")>>
              /\ (ThroughLogger /\ http.resp.code = "handler") =>
                    http.log = <<Event("Request started"), Event("Request completed")>>
              /\ (ThroughLogger /\ http.resp.code = "unhandled") =>
                    /\ http.log = <<Event("Request started"), Event("Request failed")>>
                    /\ http.resp.status = 500
              /\ ~(http.pc = "handler" \/ ThroughLogger) => http.log = <<>>

\* a handler that raised on /v1/models for a request that sent its own id
C37_FailedWithOwnId ==
    /\ http.pc = "done" /\ http.path = <<"v1", "models">> /\ http.rid = "req-1"
    /\ http.log = <<[event |-> "Request started", request_id |-> "req-1"],
                    [event |-> "Request failed", request_id |-> "req-1"]>>

ToolStartsUpTo(ev) ==
    Cardinality({i \in 1 .. ev : /\ delivered[i].type = "contentBlockStart"
                                 /\ delivered[i].toolUse})

\* C38: the chunk for the k-th contentBlockStart that carries a toolUse has
\* index k-1 with the tool's id and name and empty arguments; the chunk for a
\* toolUse delta has the index of the tool started last; text and reasoning
\* events leave tool_idx alone; and no tool_calls index is negative.
C38_ToolIndexCountsToolStarts ==
    /\ \A f \in DOMAIN frames :
          LET frame == frames[f] IN
          /\ frame.kind = "tool_start" =>
                LET start == delivered[frame.ev] IN
                /\ start.type = "contentBlockStart" /\ start.toolUse
                /\ frame.index = ToolStartsUpTo(frame.ev) - 1
                /\ frame.id = DictGet(start.tu, "toolUseId", "")
                /\ frame.name = DictGet(start.tu, "name", "")
                /\ frame.arguments = ""
                /\ frame.index >= 0
          /\ frame.kind = "tool_args" =>
                /\ delivered[frame.ev].type = "contentBlockDelta"
                /\ delivered[frame.ev].delta = "toolUse"
                /\ frame.index = ToolStartsUpTo(frame.ev) - 1
                /\ frame.index >= 0
    /\ stream_pc \in {"pull", "done_frame", "eof"} =>
          tool_idx = ToolStartsUpTo(Len(delivered)) - 1

\* a second tool call opened, with index 1, its id and its name
C38_SecondToolStarted ==
    \E f \in DOMAIN frames :
        /\ frames[f].kind = "tool_start" /\ frames[f].index = 1
        /\ frames[f].id = "tu-1" /\ frames[f].name = "f"

HistoryBlocks == Flatten([i \in 1 .. Len(params.messages) |-> params.messages[i].content])

HistoryToolNames ==
    {HistoryBlocks[i].toolUse.name :
        i \in {k \in DOMAIN HistoryBlocks : "toolUse" \in DOMAIN HistoryBlocks[k]}}

\* C39: when the translated history holds a toolUse or a toolResult block
\* the parameters hold a toolConfig; where the body gives no function tool
\* its tools are one toolSpec for each tool name of the history, in sorted
\* order, each described as a tool from the conversation history.
C39_ToolConfigWithToolHistory ==
    (/\ params # NoParams
     /\ \E i \in DOMAIN HistoryBlocks :
           \/ "toolUse" \in DOMAIN HistoryBlocks[i]
           \/ "toolResult" \in DOMAIN HistoryBlocks[i]) =>
        /\ params.toolConfig # NoToolConfig
        /\ ("tools" \notin DOMAIN body
               \/ \A t \in DOMAIN body.tools : body.tools[t].type # "function") =>
              LET specs == SelectSeq(params.toolConfig.tools,
                                     LAMBDA t : "toolSpec" \in DOMAIN t)
              IN  /\ {specs[k].toolSpec.name : k \in DOMAIN specs} = HistoryToolNames
                  /\ Len(specs) = Cardinality(HistoryToolNames)
                  /\ \A k \in 1 .. Len(specs) - 1 :
                        \E a, b \in DOMAIN NameOrder :
                            /\ a < b
                            /\ NameOrder[a] = specs[k].toolSpec.name
                            /\ NameOrder[b] = specs[k + 1].toolSpec.name
                  /\ \A k \in DOMAIN specs :
                        specs[k].toolSpec.description = "Tool from conversation history"

CachePointsIn(blocks) == {i \in DOMAIN blocks : blocks[i] = CachePoint}

\* C40: with caching enabled the system list, when there is one, and the
\* tool list, when there is one, end with a cachePoint, their only one;
\* with caching disabled neither holds a cachePoint; and in the content of a
\* message a cachePoint stands only immediately after a text block.
C40_CachePointPlacement ==
    params # NoParams =>
        LET enabled ==
                \/ params.system # <<>> /\ params.system[Len(params.system)] = CachePoint
                \/ /\ params.toolConfig # NoToolConfig
                   /\ params.toolConfig.tools[Len(params.toolConfig.tools)] = CachePoint
        IN  /\ params.system # <<>> =>
                  CachePointsIn(params.system)
                      = IF enabled THEN {Len(params.system)} ELSE {}
            /\ params.toolConfig # NoToolConfig =>
                  CachePointsIn(params.toolConfig.tools)
                      = IF enabled THEN {Len(params.toolConfig.tools)} ELSE {}
            /\ \A m \in DOMAIN params.messages :
                  \A i \in CachePointsIn(params.messages[m].content) :
                      /\ i > 1
                      /\ "text" \in DOMAIN params.messages[m].content[i - 1]

====
